---- MODULE Spec2Model ----
(***************************************************************************)
(* Model of the fish-landing / dissolved-oxygen analysis engine            *)
(* (src/DataAnalyzer.py) and of the workbook loader (src/FishLandings.py). *)
(*                                                                         *)
(* Python ints are modelled as TLA+ integers.  Python floats are modelled  *)
(* as IEEE-754 binary64 values: the operators +, -, *, / and math.sqrt are *)
(* computed exactly and then rounded to the nearest float, ties to even:   *)
(* to 53 significant bits in the normal range, to a multiple of 2^-1074    *)
(* below it (subnormals and zeros), to an infinity from 2^1024 on; the     *)
(* operations that have no value give nan.  x ** 2 is the pow() of the C   *)
(* library, which is within 0.54 units in the last place of the exact      *)
(* square and not always the nearest float: float_pow2 gives the set of    *)
(* the floats it can be, and what builds on it gives sets of outcomes.     *)
(* A float is a record                                                     *)
(*     [s |-> sign bit, m |-> magnitude, e |-> exponent]                   *)
(* of value (-1)^s * m * 2^e, where m is an odd natural number below 2^53  *)
(* (or zero, with e = 0).  Natural numbers wider than TLC's integers are   *)
(* little-endian sequences of 15-bit limbs without leading zero limbs.     *)
(***************************************************************************)
EXTENDS Integers, Sequences, FiniteSets, TLC

VARIABLES fish_list, water_list, self, workbooks, op, args, ret, raised

vars == <<fish_list, water_list, self, workbooks, op, args, ret, raised>>

----------------------------------------------------------------------------
(* Natural numbers of arbitrary width                                      *)

LimbBits == 15
Base == 32768
Precision == 53

Max(a, b) == IF a >= b THEN a ELSE b
Min(a, b) == IF a <= b THEN a ELSE b

Pow2(k) == 2^k

RECURSIVE BigNorm(_)
BigNorm(a) ==
    IF a = <<>> THEN a
    ELSE IF a[Len(a)] = 0 THEN BigNorm(SubSeq(a, 1, Len(a) - 1))
    ELSE a

RECURSIVE BigOfNat(_)
BigOfNat(n) == IF n = 0 THEN <<>> ELSE <<n % Base>> \o BigOfNat(n \div Base)

Limb(a, i) == IF i <= Len(a) THEN a[i] ELSE 0

RECURSIVE BigAddFrom(_, _, _, _)
BigAddFrom(a, b, i, c) ==
    IF i > Len(a) /\ i > Len(b)
    THEN IF c = 0 THEN <<>> ELSE <<c>>
    ELSE LET t == Limb(a, i) + Limb(b, i) + c
         IN  <<t % Base>> \o BigAddFrom(a, b, i + 1, t \div Base)

BigAdd(a, b) == BigAddFrom(a, b, 1, 0)

\* a - b for a >= b
RECURSIVE BigSubFrom(_, _, _, _)
BigSubFrom(a, b, i, c) ==
    IF i > Len(a) THEN <<>>
    ELSE LET t == a[i] - Limb(b, i) - c
         IN  IF t < 0 THEN <<t + Base>> \o BigSubFrom(a, b, i + 1, 1)
             ELSE <<t>> \o BigSubFrom(a, b, i + 1, 0)

BigSub(a, b) == BigNorm(BigSubFrom(a, b, 1, 0))

\* -1, 0, 1 as a < b, a = b, a > b
RECURSIVE BigCmpFrom(_, _, _)
BigCmpFrom(a, b, i) ==
    IF i = 0 THEN 0
    ELSE IF a[i] < b[i] THEN -1
    ELSE IF a[i] > b[i] THEN 1
    ELSE BigCmpFrom(a, b, i - 1)

BigCmp(a, b) ==
    IF Len(a) < Len(b) THEN -1
    ELSE IF Len(a) > Len(b) THEN 1
    ELSE BigCmpFrom(a, b, Len(a))

\* a * d for a limb d
RECURSIVE BigMulLimbFrom(_, _, _, _)
BigMulLimbFrom(a, d, i, c) ==
    IF i > Len(a) THEN IF c = 0 THEN <<>> ELSE <<c>>
    ELSE LET t == a[i] * d + c
         IN  <<t % Base>> \o BigMulLimbFrom(a, d, i + 1, t \div Base)

BigMulLimb(a, d) == IF d = 0 THEN <<>> ELSE BigMulLimbFrom(a, d, 1, 0)

Zeros(k) == [i \in 1..k |-> 0]

BigShlLimbs(a, k) == IF a = <<>> THEN a ELSE Zeros(k) \o a

RECURSIVE BigMulFrom(_, _, _)
BigMulFrom(a, b, i) ==
    IF i > Len(b) THEN <<>>
    ELSE BigAdd(BigShlLimbs(BigMulLimb(a, b[i]), i - 1), BigMulFrom(a, b, i + 1))

BigMul(a, b) == BigMulFrom(a, b, 1)

\* a * 2^k
BigShl(a, k) == BigShlLimbs(BigMulLimb(a, Pow2(k % LimbBits)), k \div LimbBits)

\* floor(a / 2^k)
BigShr(a, k) ==
    LET q == k \div LimbBits
        r == k % LimbBits
        lo == Pow2(r)
        hi == Pow2(LimbBits - r)
    IN  IF q >= Len(a) THEN <<>>
        ELSE BigNorm([i \in 1..(Len(a) - q) |->
                        (a[i + q] \div lo) + (Limb(a, i + q + 1) % lo) * hi])

\* bit k of a, bit 0 being the least significant
BigBit(a, k) == (Limb(a, (k \div LimbBits) + 1) \div Pow2(k % LimbBits)) % 2

\* a mod 2^k = 0
BigLowZero(a, k) ==
    /\ \A i \in 1..Min(k \div LimbBits, Len(a)) : a[i] = 0
    /\ Limb(a, (k \div LimbBits) + 1) % Pow2(k % LimbBits) = 0

RECURSIVE NatBitLen(_)
NatBitLen(n) == IF n = 0 THEN 0 ELSE 1 + NatBitLen(n \div 2)

BigBitLen(a) == IF a = <<>> THEN 0 ELSE LimbBits * (Len(a) - 1) + NatBitLen(a[Len(a)])

RECURSIVE NatTrailingZeros(_)
NatTrailingZeros(n) == IF n % 2 = 1 THEN 0 ELSE 1 + NatTrailingZeros(n \div 2)

\* number of trailing zero bits of a # 0
RECURSIVE BigTrailingZerosFrom(_, _)
BigTrailingZerosFrom(a, i) ==
    IF a[i] = 0 THEN LimbBits + BigTrailingZerosFrom(a, i + 1)
    ELSE NatTrailingZeros(a[i])

BigTrailingZeros(a) == BigTrailingZerosFrom(a, 1)

BigIsOdd(a) == a # <<>> /\ a[1] % 2 = 1

\* the quotient limb of r2 by dn, est exceeding it by at most 2
BigDivCorrect(r2, dn, est) ==
    IF BigCmp(BigMulLimb(dn, est), r2) <= 0 THEN est
    ELSE IF BigCmp(BigMulLimb(dn, est - 1), r2) <= 0 THEN est - 1
    ELSE est - 2

BigDivStepBy(r2, dn, g) == [g |-> g, r |-> BigSub(r2, BigMulLimb(dn, g))]

\* One step of long division by dn, whose top limb is at least Base / 2:
\* the quotient limb g and remainder of r2 by dn, for r2 < dn * Base.  The
\* estimate from the top limbs exceeds g by at most 2.
BigDivStep(r2, dn) ==
    IF BigCmp(r2, dn) < 0 THEN [g |-> 0, r |-> r2]
    ELSE BigDivStepBy(r2, dn,
             BigDivCorrect(r2, dn,
                 Min(Base - 1,
                     (Limb(r2, Len(dn) + 1) * Base + Limb(r2, Len(dn)))
                         \div dn[Len(dn)])))

\* long division of the limbs i, i-1, ..., 1 of nn by dn, q and r being the
\* quotient limbs and the remainder left by the limbs above i
RECURSIVE BigDivModFrom(_, _, _, _, _)
RECURSIVE BigDivModAfter(_, _, _, _, _)
BigDivModAfter(nn, dn, i, q, st) ==
    BigDivModFrom(nn, dn, i - 1, <<st.g>> \o q, st.r)

BigDivModFrom(nn, dn, i, q, r) ==
    IF i = 0 THEN [q |-> q, r |-> r]
    ELSE BigDivModAfter(nn, dn, i, q, BigDivStep(BigNorm(<<nn[i]>> \o r), dn))

BigDivModResult(res, sh) == [q |-> BigNorm(res.q), r |-> BigShr(res.r, sh)]

BigDivModNormal(nn, dn, sh) ==
    BigDivModResult(BigDivModFrom(nn, dn, Len(nn), <<>>, <<>>), sh)

\* quotient and remainder of n by d # 0
BigDivMod(n, d) ==
    BigDivModNormal(BigShl(n, LimbBits - NatBitLen(d[Len(d)])),
                    BigShl(d, LimbBits - NatBitLen(d[Len(d)])),
                    LimbBits - NatBitLen(d[Len(d)]))

\* floor of the square root of n > 0 by Newton's iteration from x >= sqrt(n)
RECURSIVE BigSqrtFrom(_, _)
RECURSIVE BigSqrtNext(_, _, _)
BigSqrtNext(n, x, y) == IF BigCmp(y, x) >= 0 THEN x ELSE BigSqrtFrom(n, y)

BigSqrtFrom(n, x) == BigSqrtNext(n, x, BigShr(BigAdd(x, BigDivMod(n, x).q), 1))

\* floor of the square root of 0 < t < Base^2, by the same iteration
RECURSIVE NatSqrtFrom(_, _)
NatSqrtFrom(t, x) ==
    LET y == (x + t \div x) \div 2
    IN  IF y >= x THEN x ELSE NatSqrtFrom(t, y)

\* the value of a of at most two limbs
BigToNat(a) == Limb(a, 1) + Base * Limb(a, 2)

\* a first x >= sqrt(n) from the bits of n above bit s, s even
BigSqrtGuess(n, s) ==
    BigShl(BigOfNat(NatSqrtFrom(BigToNat(BigShr(n, s)), Base) + 1), s \div 2)

BigSqrt(n) ==
    BigSqrtFrom(n, BigSqrtGuess(n, 2 * (Max(0, BigBitLen(n) + 1 - 2 * LimbBits) \div 2)))

----------------------------------------------------------------------------
(* Python float (IEEE-754 binary64) arithmetic                             *)

\* A float is (-1)^s * m * 2^e with m odd, or a zero (m empty, e = 0).  As in
\* binary64, the exponent past the finite ones holds the infinities and nan.

\* finite floats are below 2^MaxExponent in magnitude
MaxExponent == 1024

\* the exponent of the least positive (subnormal) float
MinExponent == 2 - MaxExponent - (Precision - 1)

FZero(s) == [s |-> s, m |-> <<>>, e |-> 0]

\* float("inf") for s = 0, float("-inf") for s = 1
FInf(s) == [s |-> s, m |-> <<1>>, e |-> MaxExponent]

\* float("nan")
FNaN == [s |-> 0, m |-> <<3>>, e |-> MaxExponent]

FIsNaN(a) == a.e = MaxExponent /\ a.m = <<3>>

FIsInf(a) == a.e = MaxExponent /\ a.m = <<1>>

\* r, or the infinity of its sign when r is out of the range of floats
FFinite(r) ==
    IF r.m # <<>> /\ r.e + BigBitLen(r.m) > MaxExponent THEN FInf(r.s) ELSE r

FCanonBy(s, m, e, tz) == [s |-> s, m |-> BigShr(m, tz), e |-> e + tz]

\* the float of value (-1)^s * m * 2^e, for m of at most Precision bits
FCanon(s, m, e) ==
    IF m = <<>> THEN FZero(s) ELSE FCanonBy(s, m, e, BigTrailingZeros(m))

\* whether m / 2^k + d, of integer part q, rounds up: ties to even
FRoundsUp(m, k, q, sticky) ==
    /\ BigBit(m, k - 1) = 1
    /\ (sticky \/ ~BigLowZero(m, k - 1) \/ BigIsOdd(q))

FRoundTo(s, m, e, sticky, k, q) ==
    FFinite(FCanon(s, IF FRoundsUp(m, k, q, sticky) THEN BigAdd(q, <<1>>) ELSE q,
                   e + k))

FRoundBy(s, m, e, sticky, k) ==
    IF k <= 0 THEN FFinite(FCanon(s, m, e))
    ELSE FRoundTo(s, m, e, sticky, k, BigShr(m, k))

\* the number of low bits of m * 2^e a float does not keep: those past
\* Precision bits, and those below 2^MinExponent (gradual underflow)
FDroppedBits(m, e) == Max(BigBitLen(m) - Precision, MinExponent - e)

\* the float nearest to (-1)^s * (m + d) * 2^e, ties to even, where
\* 0 <= d < 1 and d > 0 exactly when sticky (then m has over Precision bits):
\* an infinity from 2^MaxExponent on, a subnormal or a zero below the normal
\* range
FRound(s, m, e, sticky) == FRoundBy(s, m, e, sticky, FDroppedBits(m, e))

\* FRound of a quotient with its remainder
FRoundQuotient(s, qr, e) == FRound(s, qr.q, e, qr.r # <<>>)

Abs(n) == IF n < 0 THEN -n ELSE n

\* float(n) for an int n
float_of_int(n) == FCanon(IF n < 0 THEN 1 ELSE 0, BigOfNat(Abs(n)), 0)

FNeg(a) == [a EXCEPT !.s = 1 - a.s]

FIsZero(a) == a.m = <<>>

\* a > 0
FIsPositive(a) == a.m # <<>> /\ a.s = 0 /\ ~FIsNaN(a)

\* -1, 0, 1 as a < 0, a = 0, a > 0, for a not nan
FSign(a) == IF a.m = <<>> THEN 0 ELSE IF a.s = 1 THEN -1 ELSE 1

\* a + b for magnitudes ma and mb at the common exponent e, c comparing them
FAddAligned(a, b, e, ma, mb, c) ==
    IF a.s # b.s /\ c = 0 THEN FZero(0)
    ELSE FRound(IF a.s = b.s \/ c > 0 THEN a.s ELSE b.s,
                IF a.s = b.s THEN BigAdd(ma, mb)
                ELSE IF c > 0 THEN BigSub(ma, mb)
                ELSE BigSub(mb, ma),
                e, FALSE)

FAddMagnitudes(a, b, e, ma, mb) == FAddAligned(a, b, e, ma, mb, BigCmp(ma, mb))

FAddAt(a, b, e) == FAddMagnitudes(a, b, e, BigShl(a.m, a.e - e), BigShl(b.m, b.e - e))

\* a + b
float_add(a, b) ==
    IF FIsNaN(a) \/ FIsNaN(b) THEN FNaN
    ELSE IF FIsInf(a) THEN IF FIsInf(b) /\ a.s # b.s THEN FNaN ELSE a
    ELSE IF FIsInf(b) THEN b
    ELSE IF a.m = <<>> /\ b.m = <<>> THEN FZero(IF a.s = 1 /\ b.s = 1 THEN 1 ELSE 0)
    ELSE IF a.m = <<>> THEN b
    ELSE IF b.m = <<>> THEN a
    ELSE LET ta == a.e + BigBitLen(a.m)
             tb == b.e + BigBitLen(b.m)
         IN  IF ta - tb >= Precision + 2 THEN a
             ELSE IF tb - ta >= Precision + 2 THEN b
             ELSE FAddAt(a, b, Min(a.e, b.e))

\* a - b
float_sub(a, b) == float_add(a, FNeg(b))

\* a * b
float_mul(a, b) ==
    IF FIsNaN(a) \/ FIsNaN(b) THEN FNaN
    ELSE IF FIsInf(a) \/ FIsInf(b)
    THEN IF a.m = <<>> \/ b.m = <<>> THEN FNaN ELSE FInf((a.s + b.s) % 2)
    ELSE IF a.m = <<>> \/ b.m = <<>> THEN FZero((a.s + b.s) % 2)
    ELSE FRound((a.s + b.s) % 2, BigMul(a.m, b.m), a.e + b.e, FALSE)

ZeroDivisionError == [exc |-> "ZeroDivisionError"]
ValueError == [exc |-> "ValueError"]
OverflowError == [exc |-> "OverflowError"]

\* whether a float or None or exception record is an exception
IsException(v) == "exc" \in DOMAIN v

\* a / b from the quotient of a.m * 2^k by b.m
FDivBy(a, b, k) ==
    FRoundQuotient((a.s + b.s) % 2, BigDivMod(BigShl(a.m, k), b.m), a.e - b.e - k)

\* a / b
float_truediv(a, b) ==
    IF b.m = <<>> THEN ZeroDivisionError
    ELSE IF FIsNaN(a) \/ FIsNaN(b) THEN FNaN
    ELSE IF FIsInf(a) THEN IF FIsInf(b) THEN FNaN ELSE FInf((a.s + b.s) % 2)
    ELSE IF FIsInf(b) \/ a.m = <<>> THEN FZero((a.s + b.s) % 2)
    ELSE FDivBy(a, b, Precision + 2 + BigBitLen(b.m) - BigBitLen(a.m))

\* the float nearest to sqrt(n * 2^(2 * e)), r being floor(sqrt(n))
FSqrtRound(n, r, e) == FRound(0, r, e, BigMul(r, r) # n)

FSqrtOf(n, e) == FSqrtRound(n, BigSqrt(n), e)

\* sqrt(a) from the root of a.m * 2^k, a.e - k being even
FSqrtBy(a, k) == FSqrtOf(BigShl(a.m, k), (a.e - k) \div 2)

FSqrtShift(a, k0) == FSqrtBy(a, IF (a.e - k0) % 2 = 0 THEN k0 ELSE k0 + 1)

\* math.sqrt(a)
math_sqrt(a) ==
    IF a.m = <<>> \/ FIsNaN(a) THEN a
    ELSE IF a.s = 1 THEN ValueError
    ELSE IF FIsInf(a) THEN a
    ELSE FSqrtShift(a, Max(0, 2 * (Precision + 2) - BigBitLen(a.m)))

\* a mod 2^k
BigLowBits(a, k) == BigSub(a, BigShl(BigShr(a, k), k))

\* whether fifty times the k low bits of m are of 23 to 27 times 2^k: the k
\* bits dropped are within 0.04 of half a unit in the last place kept
FNearHalfBy(low50, k) ==
    /\ BigCmp(low50, BigShl(<<23>>, k)) >= 0
    /\ BigCmp(low50, BigShl(<<27>>, k)) <= 0

FNearHalf(m, k) == FNearHalfBy(BigMulLimb(BigLowBits(m, k), 50), k)

\* what m / 2^k may become in pow(): the C library's pow() is within 0.54
\* units in the last place of the exact power, so that it returns the
\* nearest float except that near half a unit it may return either neighbour
FPowQuotients(m, k, q) ==
    IF FNearHalf(m, k) THEN {q, BigAdd(q, <<1>>)}
    ELSE {IF FRoundsUp(m, k, q, FALSE) THEN BigAdd(q, <<1>>) ELSE q}

\* the result of float ** float from what pow() returned: OverflowError when
\* it overflowed, while an underflow is a zero or a subnormal and no error
FPowResult(r) == IF FIsInf(r) THEN OverflowError ELSE r

FPowBy(m, e, k) ==
    IF k <= 0 THEN {FPowResult(FFinite(FCanon(0, m, e)))}
    ELSE {FPowResult(FFinite(FCanon(0, q, e + k))) :
              q \in FPowQuotients(m, k, BigShr(m, k))}

\* the outcomes of pow() for the exact power m * 2^e
FPowOf(m, e) == FPowBy(m, e, FDroppedBits(m, e))

\* a ** 2: the outcomes of pow(a, 2.0), which of them a ** 2 is depending on
\* the C library of the build
float_pow2(a) ==
    IF FIsNaN(a) THEN {FNaN}
    ELSE IF FIsInf(a) THEN {FInf(0)}
    ELSE IF a.m = <<>> THEN {FZero(0)}
    ELSE FPowOf(BigMul(a.m, a.m), 2 * a.e)

\* a / b for ints a and b
int_truediv(a, b) == float_truediv(float_of_int(a), float_of_int(b))

\* -1, 0, 1 as a < b, a = b, a > b, and 2 when a or b is nan, which no
\* comparison but != holds of
FCmp(a, b) ==
    IF FIsNaN(a) \/ FIsNaN(b) THEN 2
    ELSE IF FIsInf(a) /\ FIsInf(b) /\ a.s = b.s THEN 0
    ELSE FSign(float_sub(a, b))

\* a < b
FLess(a, b) == FCmp(a, b) = -1

\* a <= b
FLessEq(a, b) == FCmp(a, b) \in {-1, 0}

\* float(text) for the decimal text of n / d
float_of_decimal(n, d) == int_truediv(n, d)

RECURSIVE BigPow10(_)
BigPow10(k) == IF k = 0 THEN <<1>> ELSE BigMulLimb(BigPow10(k - 1), 10)

BigRoundUp(num, k, q) ==
    IF BigBit(num, k - 1) = 1 /\ (~BigLowZero(num, k - 1) \/ BigIsOdd(q))
    THEN BigAdd(q, <<1>>)
    ELSE q

\* the integer nearest to num / 2^k, ties to even
BigRoundShr(num, k) ==
    IF k <= 0 THEN BigShl(num, -k) ELSE BigRoundUp(num, k, BigShr(num, k))

\* the float nearest to dec / p, with the sign of x
py_round_decimal(x, p, dec, sh) ==
    IF dec = <<>> THEN FZero(x.s)
    ELSE FRoundQuotient(x.s, BigDivMod(BigShl(dec, sh), p), -sh)

py_round_scaled(x, p) ==
    py_round_decimal(x, p, BigRoundShr(BigMul(x.m, p), -x.e),
                     Precision + 2 + BigBitLen(p))

\* round(x, ndigits): the float nearest to the decimal of ndigits places
\* nearest to x, ties to even on the exact value of x; a zero or a whole
\* number is its own nearest decimal
py_round(x, ndigits) ==
    IF x.m = <<>> \/ x.e >= 0 THEN x ELSE py_round_scaled(x, BigPow10(ndigits))

----------------------------------------------------------------------------
(* Python values                                                           *)

\* None as a value
None == [none |-> TRUE]

\* None passed as the category argument (category strings are TLA+ strings)
NoCategory == "None"

\* truth value of a category argument: None and "" are false
Truthy(category) == category # NoCategory /\ category # ""

\* FishLanding(category, year, species, pounds)
FishLanding(category, year, species, pounds) ==
    [category |-> category, year |-> year, species |-> species, pounds |-> pounds]

\* WaterQualityRecord(station_name, date, dissolved_oxygen, water_temp, year)
WaterQualityRecord(station_name, date, dissolved_oxygen, water_temp, year) ==
    [station_name |-> station_name, date |-> date,
     dissolved_oxygen |-> dissolved_oxygen, water_temp |-> water_temp, year |-> year]

\* the empty dict; a dict is a function on its set of keys
EmptyDict == <<>>

\* d[k] = v
DictSet(d, k, v) == (k :> v) @@ d

\* d.get(k, default)
DictGet(d, k, default) == IF k \in DOMAIN d THEN d[k] ELSE default

\* sum(d.values()) for int values
RECURSIVE SumOver(_, _)
SumOver(d, keys) ==
    IF keys = {} THEN 0
    ELSE LET k == CHOOSE x \in keys : TRUE
         IN  d[k] + SumOver(d, keys \ {k})

sum_values(d) == SumOver(d, DOMAIN d)

\* sorted(S) for a set of ints
RECURSIVE sorted(_)
sorted(S) ==
    IF S = {} THEN <<>>
    ELSE LET lo == CHOOSE x \in S : \A y \in S : x <= y
         IN  <<lo>> \o sorted(S \ {lo})

\* sum(values) for a list of ints
RECURSIVE sum_ints(_)
sum_ints(values) ==
    IF values = <<>> THEN 0 ELSE values[1] + sum_ints(Tail(values))

\* sum(values) for a list of floats: 0 + values[0] + values[1] + ...
RECURSIVE sum_floats_from(_, _, _)
sum_floats_from(values, i, acc) ==
    IF i > Len(values) THEN acc
    ELSE sum_floats_from(values, i + 1, float_add(acc, values[i]))

sum_floats(values) == sum_floats_from(values, 1, float_of_int(0))

----------------------------------------------------------------------------
(* DataAnalyzer: aggregation                                               *)

\* the same with the year's entry created before the category test
RECURSIVE total_per_year_entry_first(_, _, _, _)
total_per_year_entry_first(fl, category, i, by_year) ==
    IF i > Len(fl) THEN by_year
    ELSE LET landing == fl[i]
             by_year1 == IF landing.year \notin DOMAIN by_year
                         THEN DictSet(by_year, landing.year, 0)
                         ELSE by_year
         IN  IF Truthy(category) /\ landing.category # category
             THEN total_per_year_entry_first(fl, category, i + 1, by_year1)
             ELSE total_per_year_entry_first(fl, category, i + 1,
                      DictSet(by_year1, landing.year,
                              by_year1[landing.year] + landing.pounds))

RECURSIVE total_fish_landings_per_year_from(_, _, _, _)
total_fish_landings_per_year_from(fl, category, i, by_year) ==
    IF i > Len(fl) THEN by_year
    ELSE LET landing == fl[i]
             by_year1 == IF landing.year \notin DOMAIN by_year
                         THEN DictSet(by_year, landing.year, 0)
                         ELSE by_year
         IN  IF Truthy(category) /\ landing.category # category
             THEN total_fish_landings_per_year_from(fl, category, i + 1, by_year)
             ELSE total_fish_landings_per_year_from(fl, category, i + 1,
                      DictSet(by_year1, landing.year,
                              by_year1[landing.year] + landing.pounds))

total_fish_landings_per_year(fl, category) ==
    total_fish_landings_per_year_from(fl, category, 1, EmptyDict)

RECURSIVE total_fish_category_landings_overall_from(_, _, _, _)
total_fish_category_landings_overall_from(fl, category, i, total_pounds) ==
    IF i > Len(fl) THEN total_pounds
    ELSE LET landing == fl[i]
         IN  IF Truthy(category) /\ landing.category # category
             THEN total_fish_category_landings_overall_from(fl, category, i + 1,
                      total_pounds)
             ELSE total_fish_category_landings_overall_from(fl, category, i + 1,
                      total_pounds + landing.pounds)

\* the same without the category filter
total_overall_unfiltered(fl, category) ==
    total_fish_category_landings_overall_from(fl, NoCategory, 1, 0)

total_fish_category_landings_overall(fl, category) ==
    total_fish_category_landings_overall_from(fl, category, 1, 0)

\* the totals and counts dicts after the loop over fish_list
RECURSIVE fish_totals_from(_, _, _)
fish_totals_from(fl, i, acc) ==
    IF i > Len(fl) THEN acc
    ELSE LET landing == fl[i]
             t1 == IF landing.year \notin DOMAIN acc.totals
                   THEN DictSet(acc.totals, landing.year, 0)
                   ELSE acc.totals
             c1 == IF landing.year \notin DOMAIN acc.totals
                   THEN DictSet(acc.counts, landing.year, 0)
                   ELSE acc.counts
         IN  fish_totals_from(fl, i + 1,
                 [totals |-> DictSet(t1, landing.year, t1[landing.year] + landing.pounds),
                  counts |-> DictSet(c1, landing.year, c1[landing.year] + 1)])

\* the same without the division: the year's total as its average
RECURSIVE fish_totals_as_averages(_, _)
fish_totals_as_averages(acc, years) ==
    IF years = {} THEN EmptyDict
    ELSE LET year == CHOOSE y \in years : TRUE
         IN  DictSet(fish_totals_as_averages(acc, years \ {year}), year,
                     int_truediv(acc.totals[year], 1))

\* {year: totals[year] / counts[year] for year in years}
RECURSIVE fish_averages_from(_, _)
fish_averages_from(acc, years) ==
    IF years = {} THEN EmptyDict
    ELSE LET year == CHOOSE y \in years : TRUE
         IN  DictSet(fish_averages_from(acc, years \ {year}), year,
                     int_truediv(acc.totals[year], acc.counts[year]))

fish_averages(acc) == fish_averages_from(acc, DOMAIN acc.totals)

average_fish_landings_per_year(fl) ==
    fish_averages(fish_totals_from(fl, 1, [totals |-> EmptyDict, counts |-> EmptyDict]))

\* the totals and counts dicts after the loop over water_list
RECURSIVE oxygen_totals_from(_, _, _)
oxygen_totals_from(wl, i, acc) ==
    IF i > Len(wl) THEN acc
    ELSE LET record == wl[i]
             t1 == IF record.year \notin DOMAIN acc.totals
                   THEN DictSet(acc.totals, record.year, float_of_int(0))
                   ELSE acc.totals
             c1 == IF record.year \notin DOMAIN acc.totals
                   THEN DictSet(acc.counts, record.year, 0)
                   ELSE acc.counts
         IN  oxygen_totals_from(wl, i + 1,
                 [totals |-> DictSet(t1, record.year,
                                 float_add(t1[record.year], record.dissolved_oxygen)),
                  counts |-> DictSet(c1, record.year, c1[record.year] + 1)])

\* {year: totals[year] / counts[year] for year in years}
RECURSIVE oxygen_averages_from(_, _)
oxygen_averages_from(acc, years) ==
    IF years = {} THEN EmptyDict
    ELSE LET year == CHOOSE y \in years : TRUE
         IN  DictSet(oxygen_averages_from(acc, years \ {year}), year,
                     float_truediv(acc.totals[year], float_of_int(acc.counts[year])))

oxygen_averages(acc) == oxygen_averages_from(acc, DOMAIN acc.totals)

average_oxygen_per_year(wl) ==
    oxygen_averages(
        oxygen_totals_from(wl, 1, [totals |-> EmptyDict, counts |-> EmptyDict]))

----------------------------------------------------------------------------
(* DataAnalyzer: comparison                                                *)

\* the year1_data and year2_data dicts after the loop over fish_list
RECURSIVE species_data_from(_, _, _, _, _)
species_data_from(fl, year1, year2, i, acc) ==
    IF i > Len(fl) THEN acc
    ELSE LET landing == fl[i]
         IN  IF landing.year = year1
             THEN species_data_from(fl, year1, year2, i + 1,
                      [acc EXCEPT !.year1_data =
                           DictSet(@, landing.species, landing.pounds)])
             ELSE IF landing.year = year2
             THEN species_data_from(fl, year1, year2, i + 1,
                      [acc EXCEPT !.year2_data =
                           DictSet(@, landing.species, landing.pounds)])
             ELSE species_data_from(fl, year1, year2, i + 1, acc)

\* the same with 0.0 in place of None
percent_change_int_zero(old, new) ==
    IF old > 0
    THEN float_mul(int_truediv(new - old, old), float_of_int(100))
    ELSE float_of_int(0)

\* ((new - old) / old * 100) if old > 0 else None, for ints
percent_change_int(old, new) ==
    IF old > 0
    THEN float_mul(int_truediv(new - old, old), float_of_int(100))
    ELSE None

compare_species_between_years(fl, year1, year2) ==
    LET data == species_data_from(fl, year1, year2, 1,
                    [year1_data |-> EmptyDict, year2_data |-> EmptyDict])
        year1_data == data.year1_data
        year2_data == data.year2_data
        all_species == (DOMAIN year1_data) \cup (DOMAIN year2_data)
    IN  [year1 |-> year1,
         year2 |-> year2,
         year1_total |-> sum_values(year1_data),
         year2_total |-> sum_values(year2_data),
         species_changes |->
            [species \in all_species |->
                LET pounds1 == DictGet(year1_data, species, 0)
                    pounds2 == DictGet(year2_data, species, 0)
                IN  [year1_pounds |-> pounds1,
                     year2_pounds |-> pounds2,
                     change |-> pounds2 - pounds1,
                     percent_change |-> percent_change_int(pounds1, pounds2)]]]

----------------------------------------------------------------------------
(* DataAnalyzer: correlation                                               *)

\* float(x) for x an int (kind "int") or a float
as_float(x, kind) == IF kind = "int" THEN float_of_int(x) ELSE x

\* sum(values) for a list of ints (kind "int") or of floats, as a float
sum_as_float(values, kind) ==
    IF kind = "int" THEN float_of_int(sum_ints(values)) ELSE sum_floats(values)

\* sum(values) / n, for a list of ints (kind "int") or of floats
series_mean(values, kind, n) ==
    float_truediv(sum_as_float(values, kind), float_of_int(n))

\* x - mean, for x an int (kind "int") or a float
deviation(x, kind, mean) == float_sub(as_float(x, kind), mean)

\* [(xs[i] - x_mean) * (ys[i] - y_mean) for i in range(n)], from index i on
RECURSIVE deviation_products(_, _, _, _, _, _, _)
deviation_products(xs, xkind, x_mean, ys, ykind, y_mean, i) ==
    IF i > Len(xs) THEN <<>>
    ELSE <<float_mul(deviation(xs[i], xkind, x_mean),
                     deviation(ys[i], ykind, y_mean))>>
         \o deviation_products(xs, xkind, x_mean, ys, ykind, y_mean, i + 1)

\* sum((xs[i] - x_mean) * (ys[i] - y_mean) for i in range(n))
pearson_numerator(xs, xkind, x_mean, ys, ykind, y_mean) ==
    sum_floats(deviation_products(xs, xkind, x_mean, ys, ykind, y_mean, 1))

\* the lists [(x - mean) ** 2 for x in values] can be, from index i on: one
\* for each choice among the outcomes of the squares
RECURSIVE squared_deviations(_, _, _, _)
squared_deviations(values, kind, mean, i) ==
    IF i > Len(values) THEN {<<>>}
    ELSE {<<square>> \o rest :
              square \in float_pow2(deviation(values[i], kind, mean)),
              rest \in squared_deviations(values, kind, mean, i + 1)}

\* sum(squares), or the exception the first square that has one raised
sum_of_squares(squares) ==
    IF \E i \in 1..Len(squares) : IsException(squares[i])
    THEN squares[CHOOSE i \in 1..Len(squares) :
                    /\ IsException(squares[i])
                    /\ \A j \in 1..(i - 1) : ~IsException(squares[j])]
    ELSE sum_floats(squares)

\* the outcomes of sum((x - mean) ** 2 for x in values)
series_variance(values, kind, mean) ==
    {sum_of_squares(squares) : squares \in squared_deviations(values, kind, mean, 1)}

\* the same with the product of the variances as the denominator, no root
pearson_product_of_variances(fish_variance, oxygen_variance) ==
    float_mul(fish_variance, oxygen_variance)

\* math.sqrt(fish_variance * oxygen_variance)
pearson_denominator(fish_variance, oxygen_variance) ==
    math_sqrt(float_mul(fish_variance, oxygen_variance))

\* (0.0, n) if denominator == 0, else (numerator / denominator, n)
pearson_result(numerator, denominator, n) ==
    IF FIsZero(denominator) THEN <<FZero(0), n>>
    ELSE <<float_truediv(numerator, denominator), n>>

\* the result from the numerator and the two variances, an exception raised
\* in computing a variance propagating
pearson_of_variance(numerator, fish_variance, oxygen_variance, n) ==
    IF IsException(fish_variance) THEN fish_variance
    ELSE IF IsException(oxygen_variance) THEN oxygen_variance
    ELSE pearson_result(numerator,
                        pearson_denominator(fish_variance, oxygen_variance), n)

\* the outcomes from the numerator and the outcomes of the two variances.  A
\* square overflows on each of its outcomes or on none, no float having its
\* square that near to 2^MaxExponent: the outcomes are all pairs or all the
\* one exception.
pearson_of_variances(numerator, fish_variances, oxygen_variances, n) ==
    {pearson_of_variance(numerator, fish_variance, oxygen_variance, n) :
         fish_variance \in fish_variances, oxygen_variance \in oxygen_variances}

\* the same with the fish variance in place of the oxygen variance
pearson_fish_variance_twice(fish_values, fish_kind, fish_mean, oxygen_values, oxygen_kind, oxygen_mean) ==
    pearson_of_variances(
        pearson_numerator(fish_values, fish_kind, fish_mean,
                          oxygen_values, oxygen_kind, oxygen_mean),
        series_variance(fish_values, fish_kind, fish_mean),
        series_variance(fish_values, fish_kind, fish_mean),
        Len(fish_values))

\* the Pearson computation from the two means
pearson_from_means(fish_values, fish_kind, fish_mean, oxygen_values, oxygen_kind, oxygen_mean) ==
    pearson_of_variances(
        pearson_numerator(fish_values, fish_kind, fish_mean,
                          oxygen_values, oxygen_kind, oxygen_mean),
        series_variance(fish_values, fish_kind, fish_mean),
        series_variance(oxygen_values, oxygen_kind, oxygen_mean),
        Len(fish_values))

\* the Pearson computation over the paired values of n >= 2 common years
pearson(fish_values, fish_kind, oxygen_values, oxygen_kind) ==
    pearson_from_means(
        fish_values, fish_kind,
        series_mean(fish_values, fish_kind, Len(fish_values)),
        oxygen_values, oxygen_kind,
        series_mean(oxygen_values, oxygen_kind, Len(fish_values)))

\* sorted(set(fish_by_year.keys()) & set(oxygen_by_year.keys()))
common_years_of(fish_by_year, oxygen_by_year) ==
    sorted((DOMAIN fish_by_year) \cap (DOMAIN oxygen_by_year))

\* [by_year[year] for year in common_years], from index i on
RECURSIVE values_from(_, _, _)
values_from(by_year, common_years, i) ==
    IF i > Len(common_years) THEN <<>>
    ELSE <<by_year[common_years[i]]>> \o values_from(by_year, common_years, i + 1)

values_of(by_year, common_years) == values_from(by_year, common_years, 1)

\* the same reporting no sample below two common years
correlate_no_count(fish_by_year, fish_kind, oxygen_by_year, oxygen_kind, common_years) ==
    IF Len(common_years) < 2 THEN {<<FZero(0), 0>>}
    ELSE pearson(values_of(fish_by_year, common_years), fish_kind,
                 values_of(oxygen_by_year, common_years), oxygen_kind)

\* the same counting the years of the fish series
correlate_fish_count(fish_by_year, fish_kind, oxygen_by_year, oxygen_kind, common_years) ==
    IF Len(common_years) < 2
    THEN {<<FZero(0), Cardinality(DOMAIN fish_by_year)>>}
    ELSE {<<result[1], Cardinality(DOMAIN fish_by_year)>> :
              result \in pearson(values_of(fish_by_year, common_years), fish_kind,
                                 values_of(oxygen_by_year, common_years),
                                 oxygen_kind)}

\* the outcomes of the correlation of two year series over their common years
correlate_over(fish_by_year, fish_kind, oxygen_by_year, oxygen_kind, common_years) ==
    IF Len(common_years) < 2 THEN {<<FZero(0), Len(common_years)>>}
    ELSE pearson(values_of(fish_by_year, common_years), fish_kind,
                 values_of(oxygen_by_year, common_years), oxygen_kind)

\* the outcomes of the correlation of two year series of the given kinds
correlate(fish_by_year, fish_kind, oxygen_by_year, oxygen_kind) ==
    correlate_over(fish_by_year, fish_kind, oxygen_by_year, oxygen_kind,
                   common_years_of(fish_by_year, oxygen_by_year))

\* whether the outcome of calc_pearson is an exception, not a pair
IsRaisedPair(result) == Cardinality(DOMAIN result) # 2

\* the outcomes of calc_pearson(category): the pairs it can return or the
\* exception it raises, one outcome unless a square is near half a unit
calc_pearson(fl, wl, category) ==
    correlate(total_fish_landings_per_year(fl, category), "int",
              average_oxygen_per_year(wl), "float")

----------------------------------------------------------------------------
(* DataAnalyzer: comparison of yearly totals and of oxygen averages        *)

\* the comparison dict from the two totals
total_comparison(year1, year2, total1, total2) ==
    [year1 |-> year1,
     year2 |-> year2,
     year1_total |-> total1,
     year2_total |-> total2,
     change |-> total2 - total1,
     percent_change |-> percent_change_int(total1, total2)]

\* the same with year2's total also taken from year1
compare_totals_year1_twice(totals, year1, year2) ==
    total_comparison(year1, year2, DictGet(totals, year1, 0), DictGet(totals, year1, 0))

compare_totals_of(totals, year1, year2) ==
    total_comparison(year1, year2, DictGet(totals, year1, 0), DictGet(totals, year2, 0))

compare_total_landings_between_years(fl, year1, year2, category) ==
    compare_totals_of(total_fish_landings_per_year(fl, category), year1, year2)

\* "float" for a year with an average, "int" for the default 0
average_kind(averages, year) == IF year \in DOMAIN averages THEN "float" ELSE "int"

\* the same subtracting the other way round
oxygen_change_reversed(avg1, kind1, avg2, kind2) ==
    IF kind1 = "int" /\ kind2 = "int" THEN avg1 - avg2
    ELSE float_sub(as_float(avg1, kind1), as_float(avg2, kind2))

\* avg2 - avg1: an int when both are the default 0, a float otherwise
oxygen_change(avg1, kind1, avg2, kind2) ==
    IF kind1 = "int" /\ kind2 = "int" THEN avg2 - avg1
    ELSE float_sub(as_float(avg2, kind2), as_float(avg1, kind1))

\* ((avg2 - avg1) / avg1 * 100) if avg1 > 0 else None
percent_change_float(avg1, kind1, change) ==
    IF kind1 = "float" /\ FIsPositive(avg1)
    THEN float_mul(float_truediv(change, avg1), float_of_int(100))
    ELSE None

\* the comparison dict from the two averages and their difference
oxygen_comparison(year1, year2, avg1, kind1, avg2, change) ==
    [year1 |-> year1,
     year2 |-> year2,
     year1_avg_oxygen |-> avg1,
     year2_avg_oxygen |-> avg2,
     change |-> change,
     percent_change |-> percent_change_float(avg1, kind1, change)]

oxygen_comparison_of(year1, year2, avg1, kind1, avg2, kind2) ==
    oxygen_comparison(year1, year2, avg1, kind1, avg2,
                      oxygen_change(avg1, kind1, avg2, kind2))

compare_oxygen_of(averages, year1, year2) ==
    oxygen_comparison_of(year1, year2,
        DictGet(averages, year1, 0), average_kind(averages, year1),
        DictGet(averages, year2, 0), average_kind(averages, year2))

compare_oxygen_levels_between_years(wl, year1, year2) ==
    compare_oxygen_of(average_oxygen_per_year(wl), year1, year2)

----------------------------------------------------------------------------
(* DataAnalyzer: joined and summary views                                  *)

\* one row per common year from index i on, the oxygen average rounded to
\* 2 places
RECURSIVE joined_rows(_, _, _, _)
joined_rows(fish_by_year, oxygen_by_year, common_years, i) ==
    IF i > Len(common_years) THEN <<>>
    ELSE <<[year |-> common_years[i],
            fish_pounds |-> fish_by_year[common_years[i]],
            avg_dissolved_oxygen |->
                py_round(oxygen_by_year[common_years[i]], 2)]>>
         \o joined_rows(fish_by_year, oxygen_by_year, common_years, i + 1)

\* seq in reverse order
RECURSIVE Reverse(_)
Reverse(seq) == IF seq = <<>> THEN <<>> ELSE Reverse(Tail(seq)) \o <<Head(seq)>>

\* the same with the common years in descending order
joined_descending(fish_by_year, oxygen_by_year) ==
    joined_rows(fish_by_year, oxygen_by_year,
                Reverse(common_years_of(fish_by_year, oxygen_by_year)), 1)

joined_of(fish_by_year, oxygen_by_year) ==
    joined_rows(fish_by_year, oxygen_by_year,
                common_years_of(fish_by_year, oxygen_by_year), 1)

get_joined_yearly_data(fl, wl, category) ==
    joined_of(total_fish_landings_per_year(fl, category),
              average_oxygen_per_year(wl))

\* sorted(d.values()) for int values: the values in ascending order, repeated
\* values kept
RECURSIVE sorted_values(_, _)
sorted_values(d, keys) ==
    IF keys = {} THEN <<>>
    ELSE LET k == CHOOSE x \in keys : \A y \in keys : d[x] <= d[y]
         IN  <<d[k]>> \o sorted_values(d, keys \ {k})

\* the same with the total of all categories
summary_of_all_categories(fl, wl, fish_by_year, oxygen_by_year, result) ==
    [total_fish_records |-> Len(fl),
     total_water_records |-> Len(wl),
     fish_years |-> sorted_values(fish_by_year, DOMAIN fish_by_year),
     water_years |-> sorted(DOMAIN oxygen_by_year),
     common_years |-> result[2],
     total_fish_category_pounds |->
         total_fish_category_landings_overall(fl, NoCategory),
     pearson_correlation |-> py_round(result[1], 4)]

\* the summary dict from the two yearly dicts and calc_pearson's result
summary_dict(fl, wl, fish_by_year, oxygen_by_year, result) ==
    [total_fish_records |-> Len(fl),
     total_water_records |-> Len(wl),
     fish_years |-> sorted_values(fish_by_year, DOMAIN fish_by_year),
     water_years |-> sorted(DOMAIN oxygen_by_year),
     common_years |-> result[2],
     total_fish_category_pounds |->
         total_fish_category_landings_overall(fl, "Finfish"),
     pearson_correlation |-> py_round(result[1], 4)]

\* the summary, an exception raised by calc_pearson propagating
summary_of(fl, wl, fish_by_year, oxygen_by_year, result) ==
    IF IsRaisedPair(result) THEN result
    ELSE summary_dict(fl, wl, fish_by_year, oxygen_by_year, result)

\* the outcomes of get_summary_stats(category), one for each of calc_pearson
get_summary_stats(fl, wl, category) ==
    {summary_of(fl, wl,
                total_fish_landings_per_year(fl, category),
                average_oxygen_per_year(wl),
                result) : result \in calc_pearson(fl, wl, category)}

----------------------------------------------------------------------------
(* FishLandings: loading the yearly workbooks.  A workbook is the sequence *)
(* of its rows; a cell is a tagged value: a text, an int, a float or NaN    *)
(* (an empty cell).  The text of a Category or Total Landings cell is the   *)
(* sequence of its characters; a Species text is only compared with "".     *)

NaN == [kind |-> "nan"]
TextCell(value) == [kind |-> "str", value |-> value]
IntCell(value) == [kind |-> "int", value |-> value]
FloatCell(value) == [kind |-> "float", value |-> value]

\* a row of the table
Row(category, species, total_landings) ==
    [Category |-> category, Species |-> species, TotalLandings |-> total_landings]

\* row.get(key, default): the cell of the column key, default in a table
\* without the column
row_get(row, key, default) == IF key \in DOMAIN row THEN row[key] ELSE default

\* row.get("Species", "")
species_of(row) == row_get(row, "Species", TextCell(""))

\* row.get("Total Landings", 0)
total_landings_of(row) == row_get(row, "TotalLandings", IntCell(0))

\* pd.isna(cell)
pd_isna(cell) ==
    cell.kind = "nan" \/ (cell.kind = "float" /\ FIsNaN(cell.value))

\* the valid years
FirstYear == 1980
LastYear == 2002

\* the texts "Total" and "Other"
Total == <<"T", "o", "t", "a", "l">>
Other == <<"O", "t", "h", "e", "r">>

\* sub in text: text holds the characters of sub one after the other
Contains(text, sub) ==
    \E i \in 0..(Len(text) - Len(sub)) : SubSeq(text, i + 1, i + Len(sub)) = sub

\* sub in str(category): the str() of a cell that is no text ("nan", a
\* number) holds neither "Total" nor "Other"
InText(sub, cell) == cell.kind = "str" /\ Contains(cell.value, sub)

\* the separators U+001C to U+001F, whitespace for split() and not for int()
Separators == {"", "", "", ""}

\* the whitespace of split(): the characters c with c.isspace() that a
\* string of the model can hold, which are the blank, tab, newline, return,
\* form feed, U+000B, the separators, U+0085, U+00A0 and U+1680
Whitespace == {" ", "\t", "\n", "\r", "\f", "", "", " ", " "} \cup Separators

\* the whitespace that int() passes over around a number
IntWhitespace == Whitespace \ Separators

\* every character of text is one of chars
AllIn(text, chars) == \A i \in 1..Len(text) : text[i] \in chars

\* the place of the first and of the last character of text outside chars
FirstOutside(text, chars) ==
    CHOOSE i \in 1..Len(text) :
        text[i] \notin chars /\ \A j \in 1..(i - 1) : text[j] \in chars

LastOutside(text, chars) ==
    CHOOSE i \in 1..Len(text) :
        text[i] \notin chars /\ \A j \in (i + 1)..Len(text) : text[j] \in chars

\* text.strip() for the whitespace chars
Strip(text, chars) ==
    IF AllIn(text, chars) THEN <<>>
    ELSE SubSeq(text, FirstOutside(text, chars), LastOutside(text, chars))

\* where the word that ends at character last starts
WordStart(text, last) ==
    CHOOSE i \in 1..last :
        /\ \A j \in i..last : text[j] \notin Whitespace
        /\ i = 1 \/ text[i - 1] \in Whitespace

\* the characters of text.split()[-1], for a text with a word
LastWord(text) ==
    SubSeq(text, WordStart(text, LastOutside(text, Whitespace)),
           LastOutside(text, Whitespace))

\* the string of the characters lo..hi of chars
RECURSIVE JoinedFrom(_, _, _)
JoinedFrom(chars, lo, hi) ==
    IF lo > hi THEN ""
    ELSE IF lo = hi THEN chars[lo]
    ELSE JoinedFrom(chars, lo, (lo + hi) \div 2)
             \o JoinedFrom(chars, ((lo + hi) \div 2) + 1, hi)

\* the string of a sequence of characters
Joined(chars) == JoinedFrom(chars, 1, Len(chars))

\* what the loop body does with a row: it skips it, appends a landing, or
\* raises
Skipped == [raised |-> "none", skip |-> TRUE]
Appended(landing) == [raised |-> "none", skip |-> FALSE, landing |-> landing]
Raising(exc) == [raised |-> exc, skip |-> TRUE]

\* the text "Confidential"
Confidential == <<"C", "o", "n", "f", "i", "d", "e", "n", "t", "i", "a", "l">>

\* what int() gives: an int, or an exception
Converted(value) == [ok |-> TRUE, raised |-> "none", value |-> value]
NotConverted(exc) == [ok |-> FALSE, raised |-> exc, value |-> 0]

Digits == <<"0", "1", "2", "3", "4", "5", "6", "7", "8", "9">>

\* the decimal digits of Unicode that a string of the model can hold, 0 to 9
\* of each script: int() reads them all
DigitRows ==
    <<Digits,
      <<"۰", "۱", "۲", "۳", "۴", "۵", "۶", "۷", "۸", "۹">>,
      <<"߀", "߁", "߂", "߃", "߄", "߅", "߆", "߇", "߈", "߉">>,
      <<"০", "১", "২", "৩", "৪", "৫", "৬", "৭", "৮", "৯">>,
      <<"૦", "૧", "૨", "૩", "૪", "૫", "૬", "૭", "૮", "૯">>,
      <<"௦", "௧", "௨", "௩", "௪", "௫", "௬", "௭", "௮", "௯">>,
      <<"೦", "೧", "೨", "೩", "೪", "೫", "೬", "೭", "೮", "೯">>,
      <<"෦", "෧", "෨", "෩", "෪", "෫", "෬", "෭", "෮", "෯">>,
      <<"໐", "໑", "໒", "໓", "໔", "໕", "໖", "໗", "໘", "໙">>,
      <<"႐", "႑", "႒", "႓", "႔", "႕", "႖", "႗", "႘", "႙">>,
      <<"០", "១", "២", "៣", "៤", "៥", "៦", "៧", "៨", "៩">>,
      <<"᧐", "᧑", "᧒", "᧓", "᧔", "᧕", "᧖", "᧗", "᧘", "᧙">>,
      <<"᪀", "᪁", "᪂", "᪃", "᪄", "᪅", "᪆", "᪇", "᪈", "᪉">>,
      <<"᪐", "᪑", "᪒", "᪓", "᪔", "᪕", "᪖", "᪗", "᪘", "᪙">>,
      <<"᮰", "᮱", "᮲", "᮳", "᮴", "᮵", "᮶", "᮷", "᮸", "᮹">>,
      <<"꣐", "꣑", "꣒", "꣓", "꣔", "꣕", "꣖", "꣗", "꣘", "꣙">>,
      <<"꧐", "꧑", "꧒", "꧓", "꧔", "꧕", "꧖", "꧗", "꧘", "꧙">>,
      <<"꧰", "꧱", "꧲", "꧳", "꧴", "꧵", "꧶", "꧷", "꧸", "꧹">>,
      <<"꯰", "꯱", "꯲", "꯳", "꯴", "꯵", "꯶", "꯷", "꯸", "꯹">>>>

\* c is a decimal digit of value v
IsDigitOf(c, v) == \E r \in 1..Len(DigitRows) : DigitRows[r][v + 1] = c
IsDigit(c) == \E v \in 0..9 : IsDigitOf(c, v)
DigitValue(c) == CHOOSE v \in 0..9 : IsDigitOf(c, v)

\* the value of the digits from digit i on, after value acc
RECURSIVE int_of_digits(_, _, _)
int_of_digits(digits, i, acc) ==
    IF i > Len(digits) THEN acc
    ELSE int_of_digits(digits, i + 1, 10 * acc + DigitValue(digits[i]))

\* text is digits, of which there is one, with single underscores between
\* them
IsNumber(text) ==
    /\ text # <<>>
    /\ \A i \in 1..Len(text) :
          \/ IsDigit(text[i])
          \/ /\ text[i] = "_"
             /\ i > 1 /\ i < Len(text)
             /\ IsDigit(text[i - 1]) /\ IsDigit(text[i + 1])

\* the digits of value 0
ZeroDigits == {DigitRows[r][1] : r \in 1..Len(DigitRows)}

\* digits without the zeros they start with
Significant(digits) ==
    IF AllIn(digits, ZeroDigits) THEN <<>>
    ELSE SubSeq(digits, FirstOutside(digits, ZeroDigits), Len(digits))

\* sys.get_int_max_str_digits(): the most digits int() converts
int_max_str_digits == 4300

\* int() of the digits of a number: ValueError for more of them than the
\* limit, whatever their value
int_of_number(digits) ==
    IF Len(digits) > int_max_str_digits THEN NotConverted("ValueError")
    ELSE Converted(int_of_digits(Significant(digits), 1, 0))

\* int() of digits and underscores
int_of_unsigned(text) ==
    IF IsNumber(text) THEN int_of_number(SelectSeq(text, IsDigit))
    ELSE NotConverted("ValueError")

Negated(conv) == IF conv.ok THEN Converted(-conv.value) ELSE conv

\* int() of a text without whitespace around it: a sign, then the number
int_of_signed(text) ==
    IF text = <<>> THEN NotConverted("ValueError")
    ELSE IF Head(text) = "-" THEN Negated(int_of_unsigned(Tail(text)))
    ELSE IF Head(text) = "+" THEN int_of_unsigned(Tail(text))
    ELSE int_of_unsigned(text)

\* int(text)
int_of_text(text) == int_of_signed(Strip(text, IntWhitespace))

\* the value of all the limbs of a, an integer: Python's ints have no
\* bound, and TLC evaluates the ones below 2^31 in magnitude
RECURSIVE BigValue(_)
BigValue(a) == IF a = <<>> THEN 0 ELSE Head(a) + Base * BigValue(Tail(a))

\* int(x) for a float x: towards zero; OverflowError for an infinity and
\* ValueError for a NaN
int_of_float(x) ==
    IF FIsInf(x) THEN NotConverted("OverflowError")
    ELSE IF FIsNaN(x) THEN NotConverted("ValueError")
    ELSE Converted((IF x.s = 1 THEN -1 ELSE 1)
                    * BigValue(IF x.e >= 0 THEN BigShl(x.m, x.e) ELSE BigShr(x.m, -x.e)))

\* int(total_landings)
py_int(cell) ==
    IF cell.kind = "int" THEN Converted(cell.value)
    ELSE IF cell.kind = "float" THEN int_of_float(cell.value)
    ELSE int_of_text(cell.value)

\* the exceptions of int() that the loop body catches
Caught == {"ValueError", "TypeError"}

\* the mistake of keeping a landing of 0 pounds
pounds_landing_or_zero(row, year, category, pounds) ==
    IF pounds.raised \in Caught THEN Skipped
    ELSE IF pounds.raised # "none" THEN Raising(pounds.raised)
    ELSE IF pounds.value < 0 THEN Skipped
    ELSE Appended(FishLanding(category, year, species_of(row).value, pounds.value))

\* an exception of int() that is caught skips the row and any other ends the
\* load; pounds <= 0 skips; otherwise the landing is appended
pounds_landing(row, year, category, pounds) ==
    IF pounds.raised \in Caught THEN Skipped
    ELSE IF pounds.raised # "none" THEN Raising(pounds.raised)
    ELSE IF pounds.value <= 0 THEN Skipped
    ELSE Appended(FishLanding(category, year, species_of(row).value, pounds.value))

\* the conversion of total_landings and on
row_pounds(row, year, category) ==
    pounds_landing(row, year, category, py_int(total_landings_of(row)))

\* the total_landings tests, for the category's last word
row_total(row, year, category) ==
    IF pd_isna(total_landings_of(row)) THEN Skipped
    ELSE IF total_landings_of(row).kind = "str" /\ total_landings_of(row).value = Confidential
    THEN Skipped
    ELSE row_pounds(row, year, category)

\* category.split()[-1] and on: a cell that is no text has no split, a text
\* without a word has no last word
row_category(row, year) ==
    IF row.Category.kind # "str" THEN Raising("AttributeError")
    ELSE IF AllIn(row.Category.value, Whitespace) THEN Raising("IndexError")
    ELSE row_total(row, year, Joined(LastWord(row.Category.value)))

\* the tests of species and category: a species that is not there or is
\* the empty text passes the row over, whatever else the cell holds does not
row_species(row, year) ==
    IF pd_isna(species_of(row)) THEN Skipped
    ELSE IF species_of(row).kind = "str" /\ species_of(row).value = "" THEN Skipped
    ELSE IF InText(Total, row.Category) \/ InText(Other, row.Category)
    THEN Skipped
    ELSE row_category(row, year)

\* the loop body: row["Category"] raises KeyError in a table without the
\* column
row_landing(row, year) ==
    IF "Category" \notin DOMAIN row THEN Raising("KeyError")
    ELSE row_species(row, year)

\* what a load gives: a list, None, or an exception
Loaded(landings) == [raised |-> "none", none |-> FALSE, landings |-> landings]
LoadedNone == [raised |-> "none", none |-> TRUE, landings |-> <<>>]
LoadRaising(exc) == [raised |-> exc, none |-> TRUE, landings |-> <<>>]

\* one part of a loop and then the rest of it: an exception of the part
\* ends the loop, and the rest appends after what the part appended
LoopThen(part, rest) ==
    IF part.raised # "none" THEN part
    ELSE IF rest.raised # "none" THEN rest
    ELSE Loaded(part.landings \o rest.landings)

\* what the loop body leaves of a row in results
rows_after(step) ==
    IF step.raised # "none" THEN LoadRaising(step.raised)
    ELSE IF step.skip THEN Loaded(<<>>)
    ELSE Loaded(<<step.landing>>)

\* the loop over the rows lo..hi of table: the loop over the first half of
\* them and then over the others
RECURSIVE rows_from(_, _, _, _)
rows_from(table, year, lo, hi) ==
    IF lo > hi THEN Loaded(<<>>)
    ELSE IF lo = hi THEN rows_after(row_landing(table[lo], year))
    ELSE LoopThen(rows_from(table, year, lo, (lo + hi) \div 2),
                  rows_from(table, year, ((lo + hi) \div 2) + 1, hi))

\* files maps the years that have a workbook to its table
get_fish_landings_in_specified_year(files, year) ==
    IF year < FirstYear \/ year > LastYear THEN LoadedNone
    ELSE IF year \notin DOMAIN files THEN LoadRaising("FileNotFoundError")
    ELSE rows_from(files[year], year, 1, Len(files[year]))

\* the mistake of returning at the first year without landings
RECURSIVE all_until_empty_from(_, _, _, _)
all_until_empty_after(files, year, end_year, all_landings, year_landings) ==
    IF year_landings.raised # "none" THEN year_landings
    ELSE IF year_landings.landings # <<>>
    THEN all_until_empty_from(files, year + 1, end_year,
                              all_landings \o year_landings.landings)
    ELSE Loaded(all_landings)

all_until_empty_from(files, year, end_year, all_landings) ==
    IF year > end_year THEN Loaded(all_landings)
    ELSE all_until_empty_after(files, year, end_year, all_landings,
                               get_fish_landings_in_specified_year(files, year))

get_all_until_empty(files, start_year, end_year) ==
    all_until_empty_from(files, start_year, end_year, <<>>)

\* what a year leaves in all_landings: `if year_landings:` passes over None
\* and an empty list, and an exception of the year ends the loop
all_landings_after(year_landings) ==
    IF year_landings.raised # "none" THEN year_landings
    ELSE Loaded(year_landings.landings)

\* the loop over the years lo..hi: the loop over the first half of them and
\* then over the others
RECURSIVE all_landings_from(_, _, _)
all_landings_from(files, lo, hi) ==
    IF lo > hi THEN Loaded(<<>>)
    ELSE IF lo = hi
    THEN all_landings_after(get_fish_landings_in_specified_year(files, lo))
    ELSE LoopThen(all_landings_from(files, lo, (lo + hi) \div 2),
                  all_landings_from(files, ((lo + hi) \div 2) + 1, hi))

get_all_fish_landings(files, start_year, end_year) ==
    all_landings_from(files, start_year, end_year)

----------------------------------------------------------------------------
(* main: the sentence that interprets a correlation coefficient.  A text   *)
(* is the sequence of its pieces.                                          *)

\* abs(x)
py_abs(x) == [x EXCEPT !.s = 0]

Pow10(k) == 10^k

\* the decimal digits of n, at least one
RECURSIVE digits_of(_)
digits_of(n) ==
    IF n < 10 THEN <<Digits[n + 1]>> ELSE digits_of(n \div 10) \o <<Digits[(n % 10) + 1]>>

\* A natural number in decimal is the sequence of its limbs of four decimal
\* digits, lowest first, highest not 0.

\* one pass of the carries of v, limbs that may be more than four digits
DecCarried(v) ==
    [i \in 1..(Len(v) + 1) |->
        (Limb(v, i) % 10000) + (IF i = 1 THEN 0 ELSE v[i - 1] \div 10000)]

\* v with all its carries passed on
RECURSIVE DecNorm(_)
DecNorm(v) ==
    IF \A i \in 1..Len(v) : v[i] < 10000 THEN v
    ELSE DecNorm(<<>> \o DecCarried(v))

\* v without the zero limbs at its top
DecTrim(v) ==
    SubSeq(v, 1, Cardinality({i \in 1..Len(v) : \E j \in i..Len(v) : v[j] # 0}))

\* d * Base + c, for c < Base
DecStep(d, c) ==
    DecTrim(DecNorm(<<>> \o [i \in 1..(Len(d) + 1) |->
                                Limb(d, i) * Base + (IF i = 1 THEN c ELSE 0)]))

\* the state st, which is the decimal d of the limbs of a above limb i, after
\* n more limbs: after the first half of them and then the others
RECURSIVE BigToDecFrom(_, _, _)
BigToDecFrom(a, n, st) ==
    IF st.i = 0 \/ n = 0 THEN st
    ELSE IF n = 1 THEN [i |-> st.i - 1, d |-> DecStep(st.d, a[st.i])]
    ELSE BigToDecFrom(a, n - (n \div 2), BigToDecFrom(a, n \div 2, st))

\* a in decimal
BigToDec(a) == BigToDecFrom(a, Len(a), [i |-> Len(a), d |-> <<>>]).d

\* the four decimal digits of every limb of d, highest first
DecPlaces(d) ==
    <<>> \o [p \in 1..(4 * Len(d)) |->
                Digits[((d[Len(d) - ((p - 1) \div 4)]
                            \div 10^(3 - ((p - 1) % 4))) % 10) + 1]]

\* places without the zeros before the first digit that is not 0
DecSignificant(places) == SubSeq(places, FirstOutside(places, {"0"}), Len(places))

\* the decimal digits of d, at least one
DecDigits(d) == IF d = <<>> THEN <<"0">> ELSE DecSignificant(DecPlaces(d))

\* the decimal digits of a natural number of any width, at least one
big_digits_of(a) == DecDigits(BigToDec(a))

\* digits with zeros before them to make at least k
RECURSIVE zero_filled(_, _)
zero_filled(digits, k) ==
    IF Len(digits) >= k THEN digits ELSE zero_filled(<<"0">> \o digits, k)

\* the digits with a point before the last places of them
pointed(digits, places) ==
    SubSeq(digits, 1, Len(digits) - places) \o <<".">>
        \o SubSeq(digits, Len(digits) - places + 1, Len(digits))

\* the text of scaled / 10^places with the sign of x
fixed_text(x, scaled, places) ==
    (IF x.s = 1 THEN <<"-">> ELSE <<>>)
        \o pointed(zero_filled(big_digits_of(scaled), places + 1), places)

\* f"{x:.4f}": x to the nearest decimal of places digits, ties to even on
\* the exact value of x, with every digit of its whole part; "nan", "inf"
\* and "-inf" for these
format_fixed(x, places) ==
    IF FIsNaN(x) THEN <<"n", "a", "n">>
    ELSE IF FIsInf(x) THEN (IF x.s = 1 THEN <<"-">> ELSE <<>>) \o <<"i", "n", "f">>
    ELSE fixed_text(x, BigRoundShr(BigMul(x.m, BigPow10(places)), -x.e), places)

\* the mistake of counting a threshold to the strength below it
strength_of_inclusive(abs_r) ==
    IF FLessEq(abs_r, float_of_decimal(1, 10)) THEN "negligible"
    ELSE IF FLessEq(abs_r, float_of_decimal(3, 10)) THEN "weak"
    ELSE IF FLessEq(abs_r, float_of_decimal(5, 10)) THEN "moderate"
    ELSE IF FLessEq(abs_r, float_of_decimal(7, 10)) THEN "strong"
    ELSE "very strong"

\* the strength named for abs_r
strength_of(abs_r) ==
    IF FLess(abs_r, float_of_decimal(1, 10)) THEN "negligible"
    ELSE IF FLess(abs_r, float_of_decimal(3, 10)) THEN "weak"
    ELSE IF FLess(abs_r, float_of_decimal(5, 10)) THEN "moderate"
    ELSE IF FLess(abs_r, float_of_decimal(7, 10)) THEN "strong"
    ELSE "very strong"

direction_of(r) == IF FIsPositive(r) THEN "positive" ELSE "negative"

\* the returned text
sentence_of(r, abs_r, strength, direction) ==
    IF FLess(abs_r, float_of_decimal(1, 10))
    THEN <<"There is ", strength,
           " correlation between fish landings and dissolved oxygen levels.">>
    ELSE <<"There is a ", strength, " ", direction, " correlation (r=">>
             \o format_fixed(r, 4)
             \o <<") between fish landings and dissolved oxygen levels.">>

interpret_correlation(r) ==
    sentence_of(r, py_abs(r), strength_of(py_abs(r)), direction_of(r))

----------------------------------------------------------------------------
(* Inputs                                                                  *)

MaxFish == 2
MaxWater == 1
SeriesLen == 3

Categories == {"Finfish", "Crustaceans"}
SpeciesNames == {"Anchovy", "Crab"}
Years == {2000, 2001}
Pounds == {100, 200}

\* dissolved oxygen readings 4.2 and 7.1 mg/L
OxygenValues == {float_of_decimal(42, 10), float_of_decimal(71, 10)}

\* 2.0 ** k
float_pow_of_two(k) == [s |-> 0, m |-> <<1>>, e |-> k]

\* the readings and one of 2.0 ** 600 mg/L
ExtremeOxygenValues == OxygenValues \cup {float_pow_of_two(600)}

\* the longest list the caller builds by appending
MaxAppended == 2

\* the landings the caller appends
AppendedFish ==
    {FishLanding("Finfish", 2000, "Anchovy", 100),
     FishLanding("Finfish", 2001, "Anchovy", 200)}

\* the weights the caller corrects a landing to
ModifiedPounds == {200}

\* the longest table of a workbook
MaxRows == 2

\* the category text "Finfish Something"
FinfishSomething ==
    <<"F", "i", "n", "f", "i", "s", "h", " ", "S", "o", "m", "e", "t", "h", "i", "n", "g">>

\* rows as the loader meets them: two it keeps, a summary row "Total
\* Finfish" without species, and a confidential one
SourceRows ==
    {Row(TextCell(FinfishSomething), TextCell("Anchovy"), IntCell(100)),
     Row(TextCell(<<"C", "r", "u", "s", "t", "a", "c", "e", "a", "n", "s">>),
         TextCell("Crab"), IntCell(200)),
     Row(TextCell(<<"T", "o", "t", "a", "l", " ", "F", "i", "n", "f", "i", "s", "h">>),
         NaN,
         IntCell(300)),
     Row(TextCell(FinfishSomething),
         TextCell("Sardine"), TextCell(Confidential))}

\* rows of every kind the loop body tells apart.  Kept: an int total, a
\* float one of 12.7, a text one with whitespace around it under a category
\* split at a tab, one with U+000B before and U+0085 after it under a
\* category split at U+000B that ends in U+001C, a text one "1_000", one of
\* the Extended Arabic-Indic digits four and two, and a float one of
\* 2.0 ** 30.  Passed over: the categories "Totals Finfish" and "Others", no
\* species, the totals "Confidential", NaN, "n/a", "1__0", 42 after U+001C,
\* 0, -5 and 0.5.  Raising: a total of inf, a category that is NaN and one
\* that is U+00A0 and a blank.  Kept with the number as species: a species
\* cell that holds 5.
TableRows ==
    {Row(TextCell(FinfishSomething), TextCell("Anchovy"), IntCell(100)),
     Row(TextCell(<<"C", "r", "u", "s", "t", "a", "c", "e", "a", "n", "s">>),
         TextCell("Crab"), FloatCell(float_of_decimal(127, 10))),
     Row(TextCell(<<"M", "a", "r", "k", "e", "t", "\t", "F", "i", "n", "f", "i", "s", "h", " ">>),
         TextCell("Sardine"),
         TextCell(<<" ", "\t", "4", "2", "\n">>)),
     Row(TextCell(<<"M", "a", "r", "k", "e", "t", "", "F", "i", "n", "f", "i", "s", "h", "">>),
         TextCell("Sardine"),
         TextCell(<<"", "4", "2", "">>)),
     Row(TextCell(FinfishSomething),
         TextCell("Sardine"), TextCell(<<"", "4", "2">>)),
     Row(TextCell(FinfishSomething),
         TextCell("Sardine"), TextCell(<<"۴", "۲">>)),
     Row(TextCell(<<"T", "o", "t", "a", "l", "s", " ", "F", "i", "n", "f", "i", "s", "h">>),
         TextCell("Anchovy"),
         IntCell(300)),
     Row(TextCell(<<"O", "t", "h", "e", "r", "s">>),
         TextCell("Crab"), IntCell(50)),
     Row(TextCell(FinfishSomething), NaN, IntCell(300)),
     Row(TextCell(FinfishSomething), TextCell(""), IntCell(100)),
     Row(TextCell(FinfishSomething),
         TextCell("Sardine"), TextCell(Confidential)),
     Row(TextCell(FinfishSomething), TextCell("Sardine"), NaN),
     Row(TextCell(FinfishSomething),
         TextCell("Sardine"), TextCell(<<"n", "/", "a">>)),
     Row(TextCell(FinfishSomething),
         TextCell("Sardine"), TextCell(<<"1", "_", "0", "0", "0">>)),
     Row(TextCell(FinfishSomething),
         TextCell("Sardine"), TextCell(<<"1", "_", "_", "0">>)),
     Row(TextCell(FinfishSomething), TextCell("Anchovy"), IntCell(0)),
     Row(TextCell(FinfishSomething), TextCell("Anchovy"), IntCell(-5)),
     Row(TextCell(FinfishSomething),
         TextCell("Anchovy"), FloatCell(float_of_decimal(5, 10))),
     Row(TextCell(FinfishSomething),
         TextCell("Anchovy"), FloatCell(float_pow_of_two(30))),
     Row(TextCell(FinfishSomething), TextCell("Anchovy"), FloatCell(FInf(0))),
     Row(TextCell(FinfishSomething), IntCell(5), IntCell(100)),
     Row(NaN, TextCell("Anchovy"), IntCell(100)),
     Row(TextCell(<<" ", " ">>), TextCell("Anchovy"), IntCell(100))}

\* coefficients in hundredths up to MaxHundredths / 100 on either side of 0
MaxHundredths == 110

\* the float a little below x > 0: x less one unit in its last place
JustBelow(x) ==
    float_sub(x, [s |-> 0, m |-> <<1>>, e |-> x.e + BigBitLen(x.m) - Precision])

\* the thresholds between the strengths
Thresholds == {float_of_decimal(t, 10) : t \in {1, 3, 5, 7}}

\* the coefficients interpreted: every hundredth, both zeros, the floats a
\* little below a threshold, of either sign, and 200000.0 and -200000.0,
\* floats far from any coefficient that the function takes like any other
Coefficients ==
    {float_of_decimal(h, 100) : h \in (-MaxHundredths)..MaxHundredths}
        \cup {FZero(1)}
        \cup {JustBelow(t) : t \in Thresholds}
        \cup {FNeg(JustBelow(t)) : t \in Thresholds}
        \cup {float_of_int(200000), FNeg(float_of_int(200000))}

\* the years that have a workbook: the first two valid years, or the last
\* two
WorkbookYears == {{FirstYear, FirstYear + 1}, {LastYear - 1, LastYear}}

\* the year arguments of the loader: the years of the workbooks files, the
\* year before them and the year after them, which reach the years before
\* FirstYear and after LastYear and the valid years without a workbook
LoaderYearArgs(files) ==
    {year \in (FirstYear - 1)..(LastYear + 1) :
        \E y \in DOMAIN files : year \in (y - 1)..(y + 1)}

\* the category a species is landed under
CategoryOf(species) == IF species = "Crab" THEN "Crustaceans" ELSE "Finfish"

\* the weights a species is landed in
PoundsOf(species) == IF species = "Crab" THEN {100} ELSE Pounds

FishRecords ==
    UNION {{FishLanding(CategoryOf(sp), y, sp, p) : y \in Years, p \in PoundsOf(sp)} :
              sp \in SpeciesNames}

WaterRecords ==
    {WaterQualityRecord("S1", "06-01", o, None, y) : o \in OxygenValues, y \in Years}

\* the readings the caller appends, and the readings it corrects one to
AppendedWater ==
    {WaterQualityRecord("S1", "06-01", float_of_decimal(42, 10), None, 2000),
     WaterQualityRecord("S1", "06-01", float_of_decimal(71, 10), None, 2001)}

ModifiedOxygen == {float_of_decimal(71, 10)}

BoundedSeq(S, n) == UNION {[1..k -> S] : k \in 0..n}

\* category arguments: None, "", the categories, and one no record has
CategoryArgs == {NoCategory, "", "Mollusks"} \cup Categories

\* category arguments of calc_pearson: None, a category, and one no record has
PearsonCategoryArgs == {NoCategory, "Finfish", "Mollusks"}

\* category arguments of get_summary_stats: None and a category other than
\* the one of its fixed total
SummaryCategoryArgs == {NoCategory, "Crustaceans"}

SeriesYears == 2000..(1999 + SeriesLen)

\* year arguments: the years of the records and one before them
YearArgs == {1999} \cup Years

\* the years a record can have
RecordYears == Years \cup SeriesYears

\* yearly series: at most one landing and one reading per year, in year order
RECURSIVE SeriesFish(_, _)
SeriesFish(f, y) ==
    IF y \notin SeriesYears THEN <<>>
    ELSE (IF f[y] = 0 THEN <<>> ELSE <<FishLanding("Finfish", y, "Anchovy", f[y])>>)
         \o SeriesFish(f, y + 1)

\* the runs of consecutive years, the empty one included
YearRanges == {a..b : a \in SeriesYears, b \in SeriesYears}

\* one reading for each year of a run of years, in year order
RECURSIVE SeriesWater(_, _)
SeriesWater(o, y) ==
    IF y \notin SeriesYears THEN <<>>
    ELSE (IF y \notin DOMAIN o THEN <<>>
          ELSE <<WaterQualityRecord("S1", "06-01", o[y], None, y)>>)
         \o SeriesWater(o, y + 1)

----------------------------------------------------------------------------
(* The analyzer object.  Its two attributes are references to the caller's *)
(* list objects, whose contents are the variables fish_list and water_list. *)

\* a reference to the list object of the given name
Ref(name) == [ref |-> name]

\* a list object of its own with the given contents
Copy(contents) == [list |-> contents]

\* the contents of the list x refers to
Deref(x) ==
    IF "ref" \in DOMAIN x
    THEN (IF x.ref = "fish_list" THEN fish_list ELSE water_list)
    ELSE x.list

\* the same keeping copies of the lists as they are at construction
DataAnalyzerOfCopies(fl, wl) == [fish_list |-> Copy(Deref(fl)), water_list |-> Copy(Deref(wl))]

\* DataAnalyzer(fish_list, water_list): the attributes of the new object
DataAnalyzer(fl, wl) == [fish_list |-> fl, water_list |-> wl]

\* self.fish_list and self.water_list as the queries read them
self_fish_list == Deref(self.fish_list)
self_water_list == Deref(self.water_list)

----------------------------------------------------------------------------
(* The analyzer over its two lists.  A caller makes one query at a time:    *)
(* op, args and ret hold the query, its arguments and the value it         *)
(* returned until the caller takes it.                                     *)

\* the name of the exception among a set of floats, Nones and exceptions,
\* "none" without one
RaisedAmong(S) ==
    IF \E v \in S : IsException(v)
    THEN (CHOOSE v \in S : IsException(v)).exc
    ELSE "none"

\* the values of a dict
DictValues(d) == {d[k] : k \in DOMAIN d}

\* what the caller gets: the result, or nothing when an exception is raised
Returned(result, exc) == IF exc = "none" THEN result ELSE None

Init ==
    /\ fish_list \in BoundedSeq(FishRecords, MaxFish)
    /\ water_list \in BoundedSeq(WaterRecords, MaxWater)
    /\ self = DataAnalyzer(Ref("fish_list"), Ref("water_list"))
    /\ workbooks = EmptyDict
    /\ op = "idle"
    /\ args = <<>>
    /\ ret = None
    /\ raised = "none"

\* two years of landings and of readings 6.79 and 10.04 mg/L: the deviation
\* of 6.79 from the mean of the two has its square halfway between two floats
HalfwayFish ==
    <<FishLanding("Finfish", 2000, "Anchovy", 478235),
      FishLanding("Finfish", 2001, "Anchovy", 771704)>>

HalfwayWater ==
    <<WaterQualityRecord("S1", "06-01", float_of_decimal(679, 100), None, 2000),
      WaterQualityRecord("S1", "06-01", float_of_decimal(1004, 100), None, 2001)>>

SeriesInit ==
    /\ fish_list \in {SeriesFish(f, 2000) : f \in [SeriesYears -> {0} \cup Pounds]}
                        \cup {HalfwayFish}
    /\ water_list \in {SeriesWater(o, 2000) :
                          o \in UNION {[r -> OxygenValues] : r \in YearRanges}}
                         \cup {HalfwayWater}
    /\ self = DataAnalyzer(Ref("fish_list"), Ref("water_list"))
    /\ workbooks = EmptyDict
    /\ op = "idle"
    /\ args = <<>>
    /\ ret = None
    /\ raised = "none"

\* readings at the ends of the range of floats, for 2000 and 2001: two whose
\* sum is out of the range, in the two years and both in 2000; two whose
\* deviations have squares below the least positive float; one whose
\* deviation has a square in the range, the product of the variances not
OutOfRangeWater ==
    {<<WaterQualityRecord("S1", "06-01", float_pow_of_two(1023), None, 2000),
       WaterQualityRecord("S1", "06-01", float_pow_of_two(1023), None, 2001)>>,
     <<WaterQualityRecord("S1", "06-01", float_pow_of_two(1023), None, 2000),
       WaterQualityRecord("S1", "06-01", float_pow_of_two(1023), None, 2000),
       WaterQualityRecord("S1", "06-01", float_of_decimal(42, 10), None, 2001)>>,
     <<WaterQualityRecord("S1", "06-01", float_pow_of_two(-600), None, 2000),
       WaterQualityRecord("S1", "06-01",
                          float_mul(float_of_int(3), float_pow_of_two(-600)),
                          None, 2001)>>,
     <<WaterQualityRecord("S1", "06-01", float_pow_of_two(511), None, 2000),
       WaterQualityRecord("S1", "06-01", float_of_decimal(42, 10), None, 2001)>>}

\* yearly series with readings far from any real one among them
ExtremeInit ==
    /\ fish_list \in {SeriesFish(f, 2000) : f \in [SeriesYears -> {0} \cup Pounds]}
    /\ water_list \in {SeriesWater(o, 2000) :
                          o \in UNION {[r -> ExtremeOxygenValues] : r \in YearRanges}}
                         \cup OutOfRangeWater
    /\ self = DataAnalyzer(Ref("fish_list"), Ref("water_list"))
    /\ workbooks = EmptyDict
    /\ op = "idle"
    /\ args = <<>>
    /\ ret = None
    /\ raised = "none"

\* an analyzer over two lists that are empty at first and that the caller
\* changes between the queries
MutationInit ==
    /\ fish_list = <<>>
    /\ water_list = <<>>
    /\ self = DataAnalyzer(Ref("fish_list"), Ref("water_list"))
    /\ workbooks = EmptyDict
    /\ op = "idle"
    /\ args = <<>>
    /\ ret = None
    /\ raised = "none"

TotalFishLandingsPerYear ==
    \E category \in CategoryArgs :
        /\ op = "idle"
        /\ op' = "total_fish_landings_per_year"
        /\ args' = [category |-> category]
        /\ raised' = "none"
        /\ ret' = total_fish_landings_per_year(self_fish_list, category)
        /\ UNCHANGED <<fish_list, water_list, self, workbooks>>

AverageFishLandingsPerYear ==
    /\ op = "idle"
    /\ op' = "average_fish_landings_per_year"
    /\ args' = <<>>
    /\ raised' = RaisedAmong(DictValues(average_fish_landings_per_year(self_fish_list)))
    /\ ret' = Returned(average_fish_landings_per_year(self_fish_list), raised')
    /\ UNCHANGED <<fish_list, water_list, self, workbooks>>

TotalFishCategoryLandingsOverall ==
    \E category \in CategoryArgs :
        /\ op = "idle"
        /\ op' = "total_fish_category_landings_overall"
        /\ args' = [category |-> category]
        /\ raised' = "none"
        /\ ret' = total_fish_category_landings_overall(self_fish_list, category)
        /\ UNCHANGED <<fish_list, water_list, self, workbooks>>

AverageOxygenPerYear ==
    /\ op = "idle"
    /\ op' = "average_oxygen_per_year"
    /\ args' = <<>>
    /\ raised' = RaisedAmong(DictValues(average_oxygen_per_year(self_water_list)))
    /\ ret' = Returned(average_oxygen_per_year(self_water_list), raised')
    /\ UNCHANGED <<fish_list, water_list, self, workbooks>>

\* the percent_change values of a species comparison
SpeciesPercentChanges(result) ==
    {result.species_changes[sp].percent_change : sp \in DOMAIN result.species_changes}

CompareSpeciesBetweenYears ==
    \E year1 \in YearArgs, year2 \in YearArgs :
        /\ op = "idle"
        /\ op' = "compare_species_between_years"
        /\ args' = [year1 |-> year1, year2 |-> year2]
        /\ raised' = RaisedAmong(SpeciesPercentChanges(
                         compare_species_between_years(self_fish_list, year1, year2)))
        /\ ret' = Returned(compare_species_between_years(self_fish_list, year1, year2),
                           raised')
        /\ UNCHANGED <<fish_list, water_list, self, workbooks>>

CompareTotalLandingsBetweenYears ==
    \E year1 \in YearArgs, year2 \in YearArgs, category \in PearsonCategoryArgs :
        /\ op = "idle"
        /\ op' = "compare_total_landings_between_years"
        /\ args' = [year1 |-> year1, year2 |-> year2, category |-> category]
        /\ raised' = RaisedAmong({compare_total_landings_between_years(
                                      self_fish_list, year1, year2,
                                      category).percent_change})
        /\ ret' = Returned(compare_total_landings_between_years(
                               self_fish_list, year1, year2, category), raised')
        /\ UNCHANGED <<fish_list, water_list, self, workbooks>>

CompareOxygenLevelsBetweenYears ==
    \E year1 \in YearArgs, year2 \in YearArgs :
        /\ op = "idle"
        /\ op' = "compare_oxygen_levels_between_years"
        /\ args' = [year1 |-> year1, year2 |-> year2]
        /\ raised' = RaisedAmong({compare_oxygen_levels_between_years(
                                      self_water_list, year1, year2).percent_change})
        /\ ret' = Returned(compare_oxygen_levels_between_years(
                               self_water_list, year1, year2), raised')
        /\ UNCHANGED <<fish_list, water_list, self, workbooks>>

\* the exception calc_pearson raised, "none" when it returned a pair
RaisedByPair(result) == IF IsRaisedPair(result) THEN result.exc ELSE "none"

CalcPearson ==
    \E category \in PearsonCategoryArgs :
        /\ op = "idle"
        /\ op' = "calc_pearson"
        /\ args' = [category |-> category]
        /\ \E result \in calc_pearson(self_fish_list, self_water_list, category) :
               /\ raised' = RaisedByPair(result)
               /\ ret' = Returned(result, raised')
        /\ UNCHANGED <<fish_list, water_list, self, workbooks>>

GetJoinedYearlyData ==
    \E category \in PearsonCategoryArgs :
        /\ op = "idle"
        /\ op' = "get_joined_yearly_data"
        /\ args' = [category |-> category]
        /\ raised' = "none"
        /\ ret' = get_joined_yearly_data(self_fish_list, self_water_list, category)
        /\ UNCHANGED <<fish_list, water_list, self, workbooks>>

\* the same reversing fish_list in place on the way
GetSummaryStatsReversing ==
    \E category \in SummaryCategoryArgs :
        /\ op = "idle"
        /\ op' = "get_summary_stats"
        /\ args' = [category |-> category]
        /\ \E summary \in get_summary_stats(self_fish_list, self_water_list,
                                             category) :
               /\ raised' = RaisedAmong({summary})
               /\ ret' = Returned(summary, raised')
        /\ fish_list' = Reverse(fish_list)
        /\ UNCHANGED <<water_list, self, workbooks>>

GetSummaryStats ==
    \E category \in SummaryCategoryArgs :
        /\ op = "idle"
        /\ op' = "get_summary_stats"
        /\ args' = [category |-> category]
        /\ \E summary \in get_summary_stats(self_fish_list, self_water_list,
                                             category) :
               /\ raised' = RaisedAmong({summary})
               /\ ret' = Returned(summary, raised')
        /\ UNCHANGED <<fish_list, water_list, self, workbooks>>

\* the caller takes the returned value, or handles the exception
Return ==
    /\ op # "idle"
    /\ op' = "idle"
    /\ args' = <<>>
    /\ ret' = None
    /\ raised' = "none"
    /\ UNCHANGED <<fish_list, water_list, self, workbooks>>

Next ==
    \/ TotalFishLandingsPerYear
    \/ AverageFishLandingsPerYear
    \/ TotalFishCategoryLandingsOverall
    \/ AverageOxygenPerYear
    \/ CompareSpeciesBetweenYears
    \/ CompareTotalLandingsBetweenYears
    \/ CompareOxygenLevelsBetweenYears
    \/ CalcPearson
    \/ GetJoinedYearlyData
    \/ GetSummaryStats
    \/ Return

Spec == Init /\ [][Next]_vars

SpecSeries == SeriesInit /\ [][Next]_vars

SpecExtreme == ExtremeInit /\ [][Next]_vars

----------------------------------------------------------------------------
(* The caller changing the lists between the queries: the analyzer shares   *)
(* them with the caller.                                                   *)

\* list.append
AppendFish ==
    \E landing \in AppendedFish :
        /\ op = "idle"
        /\ Len(fish_list) < MaxAppended
        /\ fish_list' = Append(fish_list, landing)
        /\ UNCHANGED <<water_list, self, workbooks, op, args, ret, raised>>

\* seq without its element i
RemoveAt(seq, i) == SubSeq(seq, 1, i - 1) \o SubSeq(seq, i + 1, Len(seq))

\* del list[i]
RemoveFish ==
    \E i \in 1..Len(fish_list) :
        /\ op = "idle"
        /\ fish_list' = RemoveAt(fish_list, i)
        /\ UNCHANGED <<water_list, self, workbooks, op, args, ret, raised>>

\* list[i].pounds = pounds
ModifyFish ==
    \E i \in 1..Len(fish_list), pounds \in ModifiedPounds :
        /\ op = "idle"
        /\ fish_list[i].pounds # pounds
        /\ fish_list' = [fish_list EXCEPT ![i].pounds = pounds]
        /\ UNCHANGED <<water_list, self, workbooks, op, args, ret, raised>>

AppendWater ==
    \E record \in AppendedWater :
        /\ op = "idle"
        /\ Len(water_list) < MaxAppended
        /\ water_list' = Append(water_list, record)
        /\ UNCHANGED <<fish_list, self, workbooks, op, args, ret, raised>>

RemoveWater ==
    \E i \in 1..Len(water_list) :
        /\ op = "idle"
        /\ water_list' = RemoveAt(water_list, i)
        /\ UNCHANGED <<fish_list, self, workbooks, op, args, ret, raised>>

\* list[i].dissolved_oxygen = oxygen
ModifyWater ==
    \E i \in 1..Len(water_list), oxygen \in ModifiedOxygen :
        /\ op = "idle"
        /\ water_list[i].dissolved_oxygen # oxygen
        /\ water_list' = [water_list EXCEPT ![i].dissolved_oxygen = oxygen]
        /\ UNCHANGED <<fish_list, self, workbooks, op, args, ret, raised>>

MutationNext ==
    \/ Next
    \/ AppendFish
    \/ RemoveFish
    \/ ModifyFish
    \/ AppendWater
    \/ RemoveWater
    \/ ModifyWater

SpecMutation == MutationInit /\ [][MutationNext]_vars

----------------------------------------------------------------------------
(* The loader over the workbooks on disk                                   *)

LoaderInit ==
    /\ \E years \in WorkbookYears :
          workbooks \in [years -> BoundedSeq(SourceRows, MaxRows)]
    /\ fish_list = <<>>
    /\ water_list = <<>>
    /\ self = None
    /\ op = "idle"
    /\ args = <<>>
    /\ ret = None
    /\ raised = "none"

\* what the caller gets from a load
LoadReturned(load) ==
    IF load.raised # "none" \/ load.none THEN None ELSE load.landings

GetFishLandingsInSpecifiedYear ==
    \E year \in LoaderYearArgs(workbooks) :
        /\ op = "idle"
        /\ op' = "get_fish_landings_in_specified_year"
        /\ args' = [year |-> year]
        /\ raised' = get_fish_landings_in_specified_year(workbooks, year).raised
        /\ ret' = LoadReturned(get_fish_landings_in_specified_year(workbooks, year))
        /\ UNCHANGED <<fish_list, water_list, self, workbooks>>

GetAllFishLandings ==
    \E start_year \in LoaderYearArgs(workbooks), end_year \in LoaderYearArgs(workbooks) :
        /\ op = "idle"
        /\ op' = "get_all_fish_landings"
        /\ args' = [start_year |-> start_year, end_year |-> end_year]
        /\ raised' = get_all_fish_landings(workbooks, start_year, end_year).raised
        /\ ret' = LoadReturned(get_all_fish_landings(workbooks, start_year, end_year))
        /\ UNCHANGED <<fish_list, water_list, self, workbooks>>

LoaderNext ==
    \/ GetFishLandingsInSpecifiedYear
    \/ GetAllFishLandings
    \/ Return

SpecLoader == LoaderInit /\ [][LoaderNext]_vars

\* the columns of a workbook
Columns == {"Category", "Species", "TotalLandings"}

\* table without one of its columns
Without(table, column) ==
    <<>> \o [i \in 1..Len(table) |-> [c \in DOMAIN table[i] \ {column} |-> table[i][c]]]

\* the tables of a workbook: rows of every kind, and the rows as the loader
\* meets them in a workbook that lacks a column
Tables ==
    BoundedSeq(TableRows, MaxRows)
        \cup {Without(table, column) :
                 table \in BoundedSeq(SourceRows, MaxRows), column \in Columns}

\* one workbook, of the first valid year
RowsInit ==
    /\ workbooks \in [{FirstYear} -> Tables]
    /\ fish_list = <<>>
    /\ water_list = <<>>
    /\ self = None
    /\ op = "idle"
    /\ args = <<>>
    /\ ret = None
    /\ raised = "none"

SpecRows == RowsInit /\ [][LoaderNext]_vars

----------------------------------------------------------------------------
(* The interpretation of a coefficient                                     *)

InterpretInit ==
    /\ fish_list = <<>>
    /\ water_list = <<>>
    /\ self = None
    /\ workbooks = EmptyDict
    /\ op = "idle"
    /\ args = <<>>
    /\ ret = None
    /\ raised = "none"

InterpretCorrelation ==
    \E r \in Coefficients :
        /\ op = "idle"
        /\ op' = "interpret_correlation"
        /\ args' = [r |-> r]
        /\ raised' = "none"
        /\ ret' = interpret_correlation(r)
        /\ UNCHANGED <<fish_list, water_list, self, workbooks>>

InterpretNext ==
    \/ InterpretCorrelation
    \/ Return

SpecInterpret == InterpretInit /\ [][InterpretNext]_vars

----------------------------------------------------------------------------
(* Properties of the aggregation and comparison queries                    *)

\* a record counts for a category argument: no filter, or its category
Qualifies(landing, category) ==
    category = NoCategory \/ category = "" \/ landing.category = category

\* the positions in fish_list of the records of year y that count for category
QualifyingIn(y, category) ==
    {i \in 1..Len(fish_list) :
        fish_list[i].year = y /\ Qualifies(fish_list[i], category)}

\* the pounds of the fish_list records at a set of positions, added up
RECURSIVE PoundsAt(_)
PoundsAt(I) ==
    IF I = {} THEN 0
    ELSE LET i == CHOOSE x \in I : TRUE
         IN  fish_list[i].pounds + PoundsAt(I \ {i})

\* the positions in fish_list of the records of species sp in year y
SpeciesIn(sp, y) ==
    {i \in 1..Len(fish_list) : fish_list[i].year = y /\ fish_list[i].species = sp}

\* the species with a record in year y
SpeciesOfYear(y) ==
    {fish_list[i].species : i \in {j \in 1..Len(fish_list) : fish_list[j].year = y}}

\* C1: for every category argument, None included, the yearly totals that
\* total_fish_landings_per_year returns add up to what
\* total_fish_category_landings_overall returns for the same argument.
C1_YearlyTotalsAddUpToOverall ==
    op = "total_fish_landings_per_year" =>
        sum_values(ret) = total_fish_category_landings_overall(fish_list, args.category)

\* two yearly totals of a filtered category were added up
C1_Witness ==
    /\ op = "total_fish_landings_per_year"
    /\ args.category = "Finfish"
    /\ DOMAIN ret = {2000, 2001}

\* C2: total_fish_landings_per_year returns a mapping whose keys are exactly
\* the years with at least one qualifying record and whose values are the
\* pounds of the year's qualifying records added up; a year without one is
\* absent, and an empty fish_list gives the empty mapping.
C2_TotalsPerYearOfQualifyingRecords ==
    op = "total_fish_landings_per_year" =>
        /\ DOMAIN ret = {y \in RecordYears : QualifyingIn(y, args.category) # {}}
        /\ \A y \in DOMAIN ret : ret[y] = PoundsAt(QualifyingIn(y, args.category))
        /\ (fish_list = <<>> => ret = EmptyDict)

\* a year has records but none of the category asked for, and is absent
C2_Witness ==
    /\ op = "total_fish_landings_per_year"
    /\ args.category = "Crustaceans"
    /\ \E i \in 1..Len(fish_list) : fish_list[i].year = 2000
    /\ DOMAIN ret = {2001}

\* C3: compare_species_between_years(y, y) gives change 0 and percent_change
\* 0 for every species with a record in year y.
C3_SameYearNoChange ==
    (op = "compare_species_between_years" /\ args.year1 = args.year2) =>
        \A sp \in SpeciesOfYear(args.year1) :
            /\ sp \in DOMAIN ret.species_changes
            /\ ret.species_changes[sp].change = 0
            /\ ret.species_changes[sp].percent_change # None
            /\ FIsZero(ret.species_changes[sp].percent_change)

\* C4: for year1 # year2, compare_species_between_years reports as
\* year1_total and year2_total the pounds of all the records of the year, and
\* as each species' year1_pounds and year2_pounds the pounds of all its
\* records of the year, also when a species has several records in a year.
C4_TotalsCoverAllRecords ==
    (op = "compare_species_between_years" /\ args.year1 # args.year2) =>
        LET totals == total_fish_landings_per_year(fish_list, NoCategory)
        IN  /\ ret.year1_total = DictGet(totals, args.year1, 0)
            /\ ret.year2_total = DictGet(totals, args.year2, 0)
            /\ \A sp \in DOMAIN ret.species_changes :
                  /\ ret.species_changes[sp].year1_pounds
                        = PoundsAt(SpeciesIn(sp, args.year1))
                  /\ ret.species_changes[sp].year2_pounds
                        = PoundsAt(SpeciesIn(sp, args.year2))

\* C5: the keys of species_changes are exactly the species recorded in year1
\* or in year2; for each, change = year2_pounds - year1_pounds, a species
\* without a record in a year has 0 pounds for it, and percent_change is None
\* exactly when year1_pounds is 0 and (year2_pounds - year1_pounds) /
\* year1_pounds * 100 otherwise.
C5_SpeciesChanges ==
    op = "compare_species_between_years" =>
        /\ DOMAIN ret.species_changes
              = SpeciesOfYear(args.year1) \cup SpeciesOfYear(args.year2)
        /\ \A sp \in DOMAIN ret.species_changes :
              LET sc == ret.species_changes[sp]
              IN  /\ sc.change = sc.year2_pounds - sc.year1_pounds
                  /\ (sp \notin SpeciesOfYear(args.year1) => sc.year1_pounds = 0)
                  /\ (sp \notin SpeciesOfYear(args.year2) => sc.year2_pounds = 0)
                  /\ (sc.percent_change = None <=> sc.year1_pounds = 0)
                  /\ (sc.year1_pounds # 0 =>
                        sc.percent_change =
                            float_mul(int_truediv(sc.year2_pounds - sc.year1_pounds,
                                                  sc.year1_pounds),
                                      float_of_int(100)))

\* one species only in year1, another only in year2: one percentage, one None
C5_Witness ==
    /\ op = "compare_species_between_years"
    /\ args.year1 = 2000 /\ args.year2 = 2001
    /\ SpeciesOfYear(2000) = {"Anchovy"}
    /\ SpeciesOfYear(2001) = {"Crab"}
    /\ ret.species_changes["Crab"].percent_change = None
    /\ ret.species_changes["Anchovy"].percent_change # None

----------------------------------------------------------------------------
(* Properties of calc_pearson                                              *)

\* the years with a qualifying landing and with an oxygen reading
CommonYears(category) ==
    {y \in RecordYears :
        /\ QualifyingIn(y, category) # {}
        /\ \E i \in 1..Len(water_list) : water_list[i].year = y}

\* the paired values calc_pearson works on, in ascending year order
FishValues(category) ==
    values_of(total_fish_landings_per_year(fish_list, category),
              sorted(CommonYears(category)))

OxygenAverages(category) ==
    values_of(average_oxygen_per_year(water_list), sorted(CommonYears(category)))

AllSame(values) == \A i, j \in 1..Len(values) : values[i] = values[j]

\* a - b for floats a and b, not rounded
ExactDiff(a, b) ==
    LET e  == Min(a.e, b.e)
        ma == BigShl(a.m, a.e - e)
        mb == BigShl(b.m, b.e - e)
        c  == BigCmp(ma, mb)
    IN  IF a.s # b.s THEN FCanon(IF ma = <<>> THEN 1 - b.s ELSE a.s, BigAdd(ma, mb), e)
        ELSE IF c = 0 THEN FZero(0)
        ELSE IF c > 0 THEN FCanon(a.s, BigSub(ma, mb), e)
        ELSE FCanon(1 - a.s, BigSub(mb, ma), e)

\* d * k for an unrounded d and an int k, not rounded
ExactScale(d, k) ==
    IF k = 0 \/ d.m = <<>> THEN FZero(0)
    ELSE FCanon(IF k < 0 THEN 1 - d.s ELSE d.s, BigMul(d.m, BigOfNat(Abs(k))), d.e)

Sign(d) == IF d.m = <<>> THEN 0 ELSE IF d.s = 1 THEN -1 ELSE 1

SignInt(k) == IF k = 0 THEN 0 ELSE IF k < 0 THEN -1 ELSE 1

FAbs(a) == [a EXCEPT !.s = 0]

\* fish = a * oxygen + b over the paired values for some a > 0, and the
\* values are not all the same
PositiveAffine(fish, oxygen) ==
    /\ Len(fish) >= 2
    /\ ~AllSame(fish)
    /\ \A i, j \in 1..Len(fish) :
          SignInt(fish[i] - fish[j]) = Sign(ExactDiff(oxygen[i], oxygen[j]))
    /\ \A i, j, k, l \in 1..Len(fish) :
          (i < j /\ k < l) =>
              ExactScale(ExactDiff(oxygen[k], oxygen[l]), fish[i] - fish[j])
                  = ExactScale(ExactDiff(oxygen[i], oxygen[j]), fish[k] - fish[l])

\* the covariance numerator and the variances calc_pearson computes for the
\* paired fish totals and oxygen averages
Numerator(fish, oxygen) ==
    pearson_numerator(fish, "int", series_mean(fish, "int", Len(fish)),
                      oxygen, "float", series_mean(oxygen, "float", Len(fish)))

Variance(values, kind) ==
    series_variance(values, kind, series_mean(values, kind, Len(values)))

\* the tolerance of the unit test of the linear case, 1e-7
Tolerance == float_of_decimal(1, 10000000)

\* C6: calc_pearson returns exactly (0.0, n) whenever there are n >= 2 common
\* years and the fish totals, or the oxygen averages, are the same in all of
\* them.
C6_ZeroVarianceGivesZero ==
    (/\ op = "calc_pearson"
     /\ Cardinality(CommonYears(args.category)) >= 2
     /\ \/ AllSame(FishValues(args.category))
        \/ AllSame(OxygenAverages(args.category)))
    => /\ FIsZero(ret[1])
       /\ ret[2] = Cardinality(CommonYears(args.category))

\* C7: calc_pearson returns (0.0, k) when the number k of common years is 0
\* or 1, also when a list is empty or the category matches no record.
C7_FewerThanTwoYears ==
    (op = "calc_pearson" /\ Cardinality(CommonYears(args.category)) < 2)
    => ret = <<FZero(0), Cardinality(CommonYears(args.category))>>

\* one common year although both lists hold records for more
C7_Witness ==
    /\ op = "calc_pearson"
    /\ Cardinality(CommonYears(args.category)) = 1
    /\ Len(fish_list) >= 2
    /\ Len(water_list) >= 2
    /\ ret = <<FZero(0), 1>>

\* C8: on every return path the sample size calc_pearson returns is the
\* number of common years; it equals the number of rows of
\* get_joined_yearly_data and the common_years of get_summary_stats.
C8_SampleSizeIsCommonYears ==
    op = "calc_pearson" =>
        /\ ret[2] = Cardinality(CommonYears(args.category))
        /\ ret[2] = Len(get_joined_yearly_data(fish_list, water_list, args.category))
        /\ \A summary \in get_summary_stats(fish_list, water_list, args.category) :
               ret[2] = summary.common_years

\* the normal path with three common years, a filter that matches
C8_Witness ==
    /\ op = "calc_pearson"
    /\ args.category = "Finfish"
    /\ ret[2] = 3
    /\ ~FIsZero(ret[1])

\* C9 as stated: when the fish totals are a positive-slope affine function of
\* the oxygen averages over n >= 2 common years, calc_pearson returns
\* coefficient 1 and sample size n, the covariance numerator being positive
\* and its square equal to fish_variance * oxygen_variance.
C9_LinearGivesExactlyOne ==
    (op = "calc_pearson"
        /\ PositiveAffine(FishValues(args.category), OxygenAverages(args.category)))
    => LET fish == FishValues(args.category)
           oxygen == OxygenAverages(args.category)
           numerator == Numerator(fish, oxygen)
       IN  /\ ret = <<float_of_int(1), Len(fish)>>
           /\ FIsPositive(numerator)
           /\ \A fish_variance \in Variance(fish, "int"),
                 oxygen_variance \in Variance(oxygen, "float") :
                  float_mul(numerator, numerator)
                      = float_mul(fish_variance, oxygen_variance)

\* C9 as amended: in that case calc_pearson returns sample size n and a
\* coefficient within 1e-7 of 1, the covariance numerator being positive.
C9_LinearGivesOneWithinTolerance ==
    (op = "calc_pearson"
        /\ PositiveAffine(FishValues(args.category), OxygenAverages(args.category)))
    => LET fish == FishValues(args.category)
           oxygen == OxygenAverages(args.category)
       IN  /\ ret[2] = Len(fish)
           /\ FIsPositive(Numerator(fish, oxygen))
           /\ FLessEq(FAbs(float_sub(ret[1], float_of_int(1))), Tolerance)

\* points on a rising line, and a coefficient that is not 1.0
C9_Witness ==
    /\ op = "calc_pearson"
    /\ PositiveAffine(FishValues(args.category), OxygenAverages(args.category))
    /\ ret[2] >= 2
    /\ ret[1] # float_of_int(1)

\* C10: the Pearson computation is symmetric in its two year series: with the
\* fish series and the oxygen series exchanged it gives the same coefficient
\* and the same sample size, on every return path.
C10_Symmetric ==
    op = "calc_pearson" =>
        LET exchanged ==
                correlate(average_oxygen_per_year(water_list), "float",
                          total_fish_landings_per_year(fish_list, args.category),
                          "int")
        IN  /\ ret \in exchanged
            /\ exchanged = calc_pearson(fish_list, water_list, args.category)

\* a coefficient that is neither 0 nor 1 over three common years
C10_Witness ==
    /\ op = "calc_pearson"
    /\ ret[2] = 3
    /\ ~FIsZero(ret[1])
    /\ ret[1] # float_of_int(1)
    /\ ~AllSame(FishValues(args.category))
    /\ ~AllSame(OxygenAverages(args.category))

----------------------------------------------------------------------------
(* Properties of the joined view, the averages and the comparisons         *)

\* the years with an oxygen reading
WaterYears == {y \in RecordYears : \E i \in 1..Len(water_list) : water_list[i].year = y}

\* C11: get_joined_yearly_data returns exactly one row per year that has a
\* qualifying landing and an oxygen reading, in strictly ascending year
\* order whatever the order of the records, with fish_pounds the unrounded
\* total of the year; a year missing from either series gives no row and no
\* error.
C11_JoinedRowsPerCommonYear ==
    op = "get_joined_yearly_data" =>
        /\ raised = "none"
        /\ Len(ret) = Cardinality(CommonYears(args.category))
        /\ {ret[i].year : i \in 1..Len(ret)} = CommonYears(args.category)
        /\ \A i \in 1..(Len(ret) - 1) : ret[i].year < ret[i + 1].year
        /\ \A i \in 1..Len(ret) :
              ret[i].fish_pounds = PoundsAt(QualifyingIn(ret[i].year, args.category))

\* both lists hold their records in descending year order, two rows returned
C11_Witness ==
    /\ op = "get_joined_yearly_data"
    /\ Len(fish_list) = 2 /\ fish_list[1].year > fish_list[2].year
    /\ Len(water_list) = 2 /\ water_list[1].year > water_list[2].year
    /\ Len(ret) = 2

\* C12: average_fish_landings_per_year()[y] is the unfiltered total of year
\* y divided by the number of fish_list records of year y, for every year
\* present; the keys are those of the totals and the divisor is never 0.
C12_AverageIsTotalOverCount ==
    op = "average_fish_landings_per_year" =>
        /\ raised = "none"
        /\ DOMAIN ret = DOMAIN total_fish_landings_per_year(fish_list, NoCategory)
        /\ \A y \in DOMAIN ret :
              /\ Cardinality(QualifyingIn(y, NoCategory)) > 0
              /\ ret[y] = int_truediv(
                              total_fish_landings_per_year(fish_list, NoCategory)[y],
                              Cardinality(QualifyingIn(y, NoCategory)))

\* a year with two records of 100 and 200 pounds averages 150.0
C12_Witness ==
    /\ op = "average_fish_landings_per_year"
    /\ Cardinality(QualifyingIn(2000, NoCategory)) = 2
    /\ ret[2000] = float_of_int(150)

\* C13: compare_total_landings_between_years takes the totals of the
\* qualifying records of the two years, 0 for a year without one, returns
\* change = year2_total - year1_total, and percent_change None exactly when
\* year1_total is 0 and (year2_total - year1_total) / year1_total * 100
\* otherwise; totals 400 and 700 give change 300 and percent_change 75.0.
C13_TotalsComparison ==
    op = "compare_total_landings_between_years" =>
          /\ compare_totals_of((2000 :> 400) @@ (2001 :> 700), 2000, 2001).change = 300
          /\ compare_totals_of((2000 :> 400) @@ (2001 :> 700), 2000, 2001).percent_change
                = float_of_int(75)
          /\ raised = "none"
          /\ ret.year1_total = PoundsAt(QualifyingIn(args.year1, args.category))
          /\ ret.year2_total = PoundsAt(QualifyingIn(args.year2, args.category))
          /\ ret.change = ret.year2_total - ret.year1_total
          /\ (ret.percent_change = None <=> ret.year1_total = 0)
          /\ (ret.year1_total # 0 =>
                ret.percent_change =
                    float_mul(int_truediv(ret.year2_total - ret.year1_total,
                                          ret.year1_total),
                              float_of_int(100)))

\* a filtered comparison between a year with landings and a year without
\* any: change -100 and percent_change -100.0
C13_Witness ==
    /\ op = "compare_total_landings_between_years"
    /\ args.category = "Finfish"
    /\ \E i \in 1..Len(fish_list) : fish_list[i].category = "Crustaceans"
    /\ ret.year1_total = 100
    /\ ret.year2_total = 0
    /\ ret.percent_change = float_of_int(-100)

\* C14: compare_oxygen_levels_between_years takes the average of a year
\* without a reading as 0, returns change = avg2 - avg1, and percent_change
\* None whenever avg1 is not above 0 (as when year1 has no reading) and
\* (avg2 - avg1) / avg1 * 100 otherwise; average_oxygen_per_year() leaves a
\* year without a reading absent.
C14_OxygenComparison ==
    op = "compare_oxygen_levels_between_years" =>
        LET averages == average_oxygen_per_year(water_list)
            has1 == args.year1 \in WaterYears
            has2 == args.year2 \in WaterYears
        IN  /\ raised = "none"
            /\ DOMAIN averages = WaterYears
            /\ (has1 => ret.year1_avg_oxygen = averages[args.year1])
            /\ (~has1 => ret.year1_avg_oxygen = 0)
            /\ (has2 => ret.year2_avg_oxygen = averages[args.year2])
            /\ (~has2 => ret.year2_avg_oxygen = 0)
            /\ (~has1 /\ ~has2 => ret.change = 0)
            /\ (has1 /\ has2 =>
                  ret.change = float_sub(ret.year2_avg_oxygen, ret.year1_avg_oxygen))
            /\ (has1 /\ ~has2 =>
                  ret.change = float_sub(float_of_int(0), ret.year1_avg_oxygen))
            /\ (~has1 /\ has2 =>
                  ret.change = float_sub(ret.year2_avg_oxygen, float_of_int(0)))
            /\ (~has1 => ret.percent_change = None)
            /\ (has1 =>
                  IF FIsPositive(ret.year1_avg_oxygen)
                  THEN ret.percent_change =
                           float_mul(float_truediv(ret.change, ret.year1_avg_oxygen),
                                     float_of_int(100))
                  ELSE ret.percent_change = None)

\* year1 has a reading and year2 has none: the change is minus the average
\* and percent_change is -100.0
C14_Witness ==
    /\ op = "compare_oxygen_levels_between_years"
    /\ args.year1 \in WaterYears
    /\ args.year2 \notin WaterYears
    /\ ret.change = FNeg(ret.year1_avg_oxygen)
    /\ ret.percent_change = float_of_int(-100)

----------------------------------------------------------------------------
(* Properties of the analyzer as a whole                                   *)

\* C15: no query raises an exception, whatever the two lists hold.
C15_NoQueryRaises == raised = "none"

\* what a DataAnalyzer newly constructed over the present contents of the two
\* lists can return for a query
FreshResults(o, a) ==
    CASE o = "total_fish_landings_per_year" ->
            {total_fish_landings_per_year(fish_list, a.category)}
      [] o = "average_fish_landings_per_year" ->
            {average_fish_landings_per_year(fish_list)}
      [] o = "total_fish_category_landings_overall" ->
            {total_fish_category_landings_overall(fish_list, a.category)}
      [] o = "average_oxygen_per_year" -> {average_oxygen_per_year(water_list)}
      [] o = "compare_species_between_years" ->
            {compare_species_between_years(fish_list, a.year1, a.year2)}
      [] o = "compare_total_landings_between_years" ->
            {compare_total_landings_between_years(fish_list, a.year1, a.year2,
                                                  a.category)}
      [] o = "compare_oxygen_levels_between_years" ->
            {compare_oxygen_levels_between_years(water_list, a.year1, a.year2)}
      [] o = "calc_pearson" -> calc_pearson(fish_list, water_list, a.category)
      [] o = "get_joined_yearly_data" ->
            {get_joined_yearly_data(fish_list, water_list, a.category)}
      [] o = "get_summary_stats" ->
            get_summary_stats(fish_list, water_list, a.category)

\* C16: the analyzer keeps no state between calls: whatever appends,
\* removals and modifications the caller made to the lists, a query returns
\* what a newly constructed DataAnalyzer over their present contents
\* returns; the answer depends on the query, its arguments and the lists
\* only, so the same query repeated without a change returns the same.
C16_QueriesSeeTheListsAsTheyAre ==
    (op # "idle" /\ raised = "none") => ret \in FreshResults(op, args)

\* a query answered from two landings the caller appended after construction
C16_Witness ==
    /\ op = "total_fish_landings_per_year"
    /\ Len(fish_list) = 2
    /\ DOMAIN ret = {2000, 2001}

\* C17: a query leaves fish_list and water_list as they are, in length,
\* order and every field of every record, and the analyzer's two attributes
\* keep referring to the same lists.
C17_QueriesLeaveTheListsUnchanged ==
    [][(op = "idle" /\ op' # "idle") =>
          /\ fish_list' = fish_list
          /\ water_list' = water_list
          /\ self' = self]_vars

\* a summary query answered over two different landings and two readings
C17_Witness ==
    /\ op = "get_summary_stats"
    /\ Len(fish_list) = 2 /\ fish_list[1] # fish_list[2]
    /\ Len(water_list) = 2
    /\ self = DataAnalyzer(Ref("fish_list"), Ref("water_list"))

----------------------------------------------------------------------------
(* Properties of get_summary_stats                                         *)

\* C18: fish_years is the ascending list of the years of the (filtered) fish
\* totals and water_years the ascending list of the years of the oxygen
\* averages.
C18_SummaryYearLists ==
    (op = "get_summary_stats" /\ raised = "none") =>
        /\ ret.fish_years =
              sorted({y \in RecordYears : QualifyingIn(y, args.category) # {}})
        /\ ret.water_years = sorted(WaterYears)

\* the positions in fish_list of the Finfish records
FinfishRecords == {i \in 1..Len(fish_list) : fish_list[i].category = "Finfish"}

\* C19: total_fish_category_pounds is the Finfish total whatever the
\* category argument; common_years and pearson_correlation follow
\* calc_pearson(category); the two record counts are the lengths of the
\* lists.
C19_SummaryFields ==
    (op = "get_summary_stats" /\ raised = "none") =>
        /\ ret.total_fish_category_pounds = PoundsAt(FinfishRecords)
        /\ ret.total_fish_category_pounds
              = total_fish_category_landings_overall(fish_list, "Finfish")
        /\ ret.common_years = Cardinality(CommonYears(args.category))
        /\ \E result \in calc_pearson(fish_list, water_list, args.category) :
               /\ ret.common_years = result[2]
               /\ ret.pearson_correlation = py_round(result[1], 4)
        /\ ret.total_fish_records = Len(fish_list)
        /\ ret.total_water_records = Len(water_list)

\* a Crustaceans summary over one Finfish and one Crustaceans landing: the
\* Finfish pounds are reported, the common year is the Crustaceans one
C19_Witness ==
    /\ op = "get_summary_stats"
    /\ args.category = "Crustaceans"
    /\ Len(fish_list) = 2
    /\ Cardinality(FinfishRecords) = 1
    /\ ret.total_fish_category_pounds = PoundsAt(FinfishRecords)
    /\ ret.common_years = 1

----------------------------------------------------------------------------
(* Properties of the loader                                                *)

\* what the loader gives for year y: a list, possibly empty, or None
YearLoad(y) == get_fish_landings_in_specified_year(workbooks, y)

\* the landings of the years a..b, those of the last year last
RECURSIVE LandingsOfYears(_, _)
LandingsOfYears(a, b) ==
    IF a > b THEN <<>>
    ELSE LandingsOfYears(a, b - 1) \o (IF YearLoad(b).none THEN <<>> ELSE YearLoad(b).landings)

\* C20: get_all_fish_landings(start_year, end_year) returns the per-year
\* results of get_fish_landings_in_specified_year for start_year..end_year
\* one after the other in ascending year order; a year that gives None or an
\* empty list adds nothing and does not stop the later years from being
\* loaded; start_year > end_year gives the empty list.
C20_AllLandingsConcatenated ==
    (op = "get_all_fish_landings" /\ raised = "none") =>
        /\ ret = LandingsOfYears(args.start_year, args.end_year)
        /\ \A i \in 1..(Len(ret) - 1) : ret[i].year <= ret[i + 1].year
        /\ (args.start_year > args.end_year => ret = <<>>)

\* a year before the valid ones gives None, the first valid year gives an
\* empty list, and the landings of the year after it are returned
C20_Witness ==
    /\ op = "get_all_fish_landings"
    /\ raised = "none"
    /\ args.start_year = FirstYear - 1
    /\ args.end_year = FirstYear + 1
    /\ YearLoad(FirstYear - 1).none
    /\ workbooks[FirstYear] # <<>>
    /\ ~YearLoad(FirstYear).none /\ YearLoad(FirstYear).landings = <<>>
    /\ Len(ret) = 2

\* the cell of a row in a column, a missing one in a table without the
\* column
CellOf(row, column) == IF column \in DOMAIN row THEN row[column] ELSE NaN

\* the row has a species: the cell is not missing and is not the empty text
HasSpecies(row) ==
    /\ ~pd_isna(CellOf(row, "Species"))
    /\ CellOf(row, "Species").kind = "str" => CellOf(row, "Species").value # ""

\* the row's category holds neither "Total" nor "Other"
PlainCategory(row) ==
    /\ ~InText(Total, CellOf(row, "Category"))
    /\ ~InText(Other, CellOf(row, "Category"))

\* the characters lo..hi of text are a number: digits at both ends, digits
\* and underscores between them, and no two underscores together
NumberAt(text, lo, hi) ==
    /\ lo <= hi
    /\ IsDigit(text[lo]) /\ IsDigit(text[hi])
    /\ \A i \in lo..hi : IsDigit(text[i]) \/ text[i] = "_"
    /\ \A i \in lo..(hi - 1) : text[i] # "_" \/ text[i + 1] # "_"

\* text reads as the number at lo..hi, not negated: nothing but whitespace
\* after it, and before it whitespace and then at most a "+"
ReadsAsNumber(text, lo, hi) ==
    /\ NumberAt(text, lo, hi)
    /\ Len(SelectSeq(SubSeq(text, lo, hi), IsDigit)) <= int_max_str_digits
    /\ \A i \in (hi + 1)..Len(text) : text[i] \in IntWhitespace
    /\ \A i \in 1..(lo - 2) : text[i] \in IntWhitespace
    /\ lo > 1 => text[lo - 1] \in IntWhitespace \cup {"+"}

\* digits, after zeros, are the decimal digits of n > 0 in some scripts
DigitsOf(digits, n) ==
    \E k \in 0..Len(digits) :
        /\ \A j \in 1..k : IsDigitOf(digits[j], 0)
        /\ Len(digits) - k = Len(digits_of(n))
        /\ \A j \in 1..Len(digits_of(n)) :
              \E v \in 0..9 : IsDigitOf(digits[k + j], v) /\ Digits[v + 1] = digits_of(n)[j]

\* the total converts to the integer n > 0: an int is n, a float lies in
\* [n, n + 1), and a text reads as a number with the digits of n
TotalIs(cell, n) ==
    CASE cell.kind = "int" -> cell.value = n
      [] cell.kind = "float" ->
            /\ ~FIsNaN(cell.value) /\ ~FIsInf(cell.value)
            /\ FLessEq(float_of_int(n), cell.value)
            /\ FLess(cell.value, float_of_int(n + 1))
      [] cell.kind = "str" ->
            \E lo \in 1..Len(cell.value), hi \in 1..Len(cell.value) :
                /\ ReadsAsNumber(cell.value, lo, hi)
                /\ DigitsOf(SelectSeq(SubSeq(cell.value, lo, hi), IsDigit), n)
      [] OTHER -> FALSE

\* the total converts to an integer above 0: an int above 0, a float that
\* is a number of 1 or more, or a text that reads as a number not all zeros
ConvertsAboveZero(cell) ==
    CASE cell.kind = "int" -> cell.value > 0
      [] cell.kind = "float" ->
            /\ ~FIsNaN(cell.value) /\ ~FIsInf(cell.value)
            /\ FLessEq(float_of_int(1), cell.value)
      [] cell.kind = "str" ->
            \E lo \in 1..Len(cell.value), hi \in 1..Len(cell.value) :
                /\ ReadsAsNumber(cell.value, lo, hi)
                /\ \E i \in lo..hi : \E v \in 1..9 : IsDigitOf(cell.value[i], v)
      [] OTHER -> FALSE

\* the row's Total Landings is there, is not "Confidential", and converts to
\* an integer above 0
PositiveTotal(row) ==
    /\ ~pd_isna(CellOf(row, "TotalLandings"))
    /\ CellOf(row, "TotalLandings") # TextCell(Confidential)
    /\ ConvertsAboveZero(CellOf(row, "TotalLandings"))

SourceRowKept(row) == HasSpecies(row) /\ PlainCategory(row) /\ PositiveTotal(row)

\* the kept rows of the workbook of the requested year, in row order
KeptRows == SelectSeq(workbooks[args.year], SourceRowKept)

\* name is the last word of the category: characters i..j of it without
\* whitespace, with whitespace or nothing before them and nothing but
\* whitespace after them
IsLastWordOf(name, cell) ==
    /\ cell.kind = "str"
    /\ \E i \in 1..Len(cell.value), j \in 1..Len(cell.value) :
          /\ i <= j
          /\ \A k \in i..j : cell.value[k] \notin Whitespace
          /\ \A k \in (j + 1)..Len(cell.value) : cell.value[k] \in Whitespace
          /\ i > 1 => cell.value[i - 1] \in Whitespace
          /\ name = Joined(SubSeq(cell.value, i, j))

\* the returned records are those of the kept rows, in row order
RecordsOfKeptRows ==
    /\ Len(ret) = Len(KeptRows)
    /\ \A i \in 1..Len(ret) :
          /\ ret[i].year = args.year
          /\ ret[i].pounds > 0
          /\ TotalIs(KeptRows[i].TotalLandings, ret[i].pounds)
          /\ ret[i].species = KeptRows[i].Species.value
          /\ IsLastWordOf(ret[i].category, KeptRows[i].Category)

\* a load of a valid year that has a workbook
LoadOfValidYear ==
    /\ op = "get_fish_landings_in_specified_year"
    /\ args.year \in FirstYear..LastYear
    /\ args.year \in DOMAIN workbooks

\* C21 as first stated: for a year in 1980..2002
\* get_fish_landings_in_specified_year returns, in row order, exactly one
\* record per source row that has a species, a category with neither "Total"
\* nor "Other", and a Total Landings that is not "Confidential" or missing
\* and converts to an integer above 0; every record has the requested year,
\* pounds > 0 and the last word of the row's category as category.
C21_OneRecordPerKeptRow ==
    LoadOfValidYear => (raised = "none" /\ RecordsOfKeptRows)

\* the exception that a row ends the load with, "none" for a row that does
\* not: a row of a table without the Category column ends it, and a row with
\* a species and neither "Total" nor "Other" in its category ends it when
\* the category is no text, when it is a text without a word, and when the
\* total is an infinite float
RowException(row) ==
    IF "Category" \notin DOMAIN row THEN "KeyError"
    ELSE IF ~(HasSpecies(row) /\ PlainCategory(row)) THEN "none"
    ELSE IF row.Category.kind # "str" THEN "AttributeError"
    ELSE IF \A i \in 1..Len(row.Category.value) : row.Category.value[i] \in Whitespace
    THEN "IndexError"
    ELSE IF CellOf(row, "TotalLandings").kind = "float"
            /\ FIsInf(CellOf(row, "TotalLandings").value)
    THEN "OverflowError"
    ELSE "none"

\* the rows of the workbook of the requested year that end the load
EndingRows ==
    {i \in 1..Len(workbooks[args.year]) : RowException(workbooks[args.year][i]) # "none"}

\* C21: for a year in 1980..2002 whose workbook has no row that ends the
\* load, get_fish_landings_in_specified_year returns, in row order, exactly
\* one record per source row that has a species, a category with neither
\* "Total" nor "Other", and a Total Landings that is not "Confidential" or
\* missing and converts to an integer above 0; every record has the
\* requested year, pounds > 0, the integer the total converts to, and the
\* last word of the row's category as category.  With such a row the call
\* raises the exception of the first of them.
C21_RecordsOfKeptRowsUnlessRaised ==
    LoadOfValidYear =>
        IF EndingRows = {}
        THEN raised = "none" /\ RecordsOfKeptRows
        ELSE raised = RowException(workbooks[args.year][
                          CHOOSE i \in EndingRows : \A j \in EndingRows : i <= j])

\* a load that returns a float total of 12.7 as 12 pounds under the
\* category's last word, after a row passed over for its total of 0
C21_Witness ==
    /\ LoadOfValidYear
    /\ raised = "none"
    /\ args.year = FirstYear
    /\ Len(workbooks[FirstYear]) = 2
    /\ CellOf(workbooks[FirstYear][1], "TotalLandings") = IntCell(0)
    /\ CellOf(workbooks[FirstYear][2], "TotalLandings").kind = "float"
    /\ ret = <<FishLanding("Crustaceans", FirstYear, "Crab", 12)>>

----------------------------------------------------------------------------
(* Properties of interpret_correlation                                     *)

\* a < b for floats, on their exact values
Below(a, b) == Sign(ExactDiff(a, b)) < 0

\* the strength whose range holds |r|
StrengthAt(r) ==
    CASE Below(FAbs(r), float_of_decimal(1, 10)) -> "negligible"
      [] ~Below(FAbs(r), float_of_decimal(1, 10))
            /\ Below(FAbs(r), float_of_decimal(3, 10)) -> "weak"
      [] ~Below(FAbs(r), float_of_decimal(3, 10))
            /\ Below(FAbs(r), float_of_decimal(5, 10)) -> "moderate"
      [] ~Below(FAbs(r), float_of_decimal(5, 10))
            /\ Below(FAbs(r), float_of_decimal(7, 10)) -> "strong"
      [] ~Below(FAbs(r), float_of_decimal(7, 10)) -> "very strong"

\* the pieces of a text that name a direction
DirectionsIn(text) ==
    {text[i] : i \in 1..Len(text)} \cap {"positive", "negative"}

\* C22: interpret_correlation(r) names the strength from |r| alone, with
\* negligible < 0.1 <= weak < 0.3 <= moderate < 0.5 <= strong < 0.7 <= very
\* strong; it names the direction positive exactly when r > 0 and negative
\* when r < 0; in the negligible case it names no direction.
C22_StrengthAndDirection ==
    op = "interpret_correlation" =>
        /\ ret[2] = StrengthAt(args.r)
        /\ ret[2] = StrengthAt(FNeg(args.r))
        /\ (StrengthAt(args.r) = "negligible" => DirectionsIn(ret) = {})
        /\ (StrengthAt(args.r) # "negligible" =>
              /\ ("positive" \in DirectionsIn(ret) <=> Sign(args.r) > 0)
              /\ ("negative" \in DirectionsIn(ret) <=> Sign(args.r) < 0)
              /\ Cardinality(DirectionsIn(ret)) = 1)

\* the coefficient 0.1 itself is already weak, and positive
C22_Witness ==
    /\ op = "interpret_correlation"
    /\ args.r = float_of_decimal(1, 10)
    /\ ret[2] = "weak"
    /\ DirectionsIn(ret) = {"positive"}

----------------------------------------------------------------------------
(* The range of the coefficient                                            *)

\* a <= b for floats
AtMost(a, b) == FLessEq(a, b)

\* C23: the coefficient calc_pearson returns lies in [-1, 1] whatever the
\* lists hold, and on the path that divides its sign is the sign of the
\* covariance numerator.
C23_CoefficientInRange ==
    (op = "calc_pearson" /\ raised = "none") =>
        /\ AtMost(float_of_int(-1), ret[1])
        /\ AtMost(ret[1], float_of_int(1))
        /\ (~FIsZero(ret[1]) =>
              Sign(ret[1]) = Sign(Numerator(FishValues(args.category),
                                            OxygenAverages(args.category))))

====
